---- MODULE Spec2Model ----
(***************************************************************************)
(* Klondike move advisor: cards and piles (src/data_structures), the two   *)
(* search engines' move generators and transition functions               *)
(* (src/game_logic/best_move_graph.py, best_move_tree.py) and the deal    *)
(* (src/main.py).                                                          *)
(*                                                                         *)
(* A game object lives in a heap cell: `heap` is a sequence of game        *)
(* values and a reference is an index into it.  copy.deepcopy allocates a  *)
(* new cell, every pile method mutates the cell it is called on.           *)
(***************************************************************************)
EXTENDS Integers, Sequences, FiniteSets, TLC

VARIABLES
    heap,      \* the live game objects, by reference
    game,      \* reference of the current game object (the one being played)
    pre,       \* value of the input game object before the last call
    last,      \* the last Move applied (NoMove before the first one)
    engine,    \* which engine's get_legal_moves / apply_move made the last step
    fpile,     \* FoundationPile under test (pile harness)
    fret,      \* return value of the last FoundationPile.add
    stock,     \* StockPile under test (recycle harness)
    waste,     \* WastePile under test (recycle harness)
    waste0,    \* the waste's card sequence before the recycle
    drawn,     \* cards returned by StockPile.draw since the recycle, in order
    rpc,       \* recycle harness: "fill", "recycled"
    recycler,  \* which recycle method ran: "recycle_from" or "recycle_waste"
    probe,     \* outcome of the last apply_move of an arbitrary move
    call,      \* the last call of a function under test: name, arguments, result
    pc,        \* search: "start", "loop", "for", "dfs", "done" ("idle" outside a search)
    max_depth, \* search: the max_depth argument
    visited,   \* search: the set of canonical keys seen
    queue,     \* breadth engine: the frontier, entries (state, depth, first_move)
    current,   \* breadth engine: the dequeued entry being expanded
    legal,     \* breadth engine: get_legal_moves(current)
    mi,        \* breadth engine: position of the for loop in legal
    stack,     \* depth engine: the frames of dfs, innermost last
    best_move, \* search: first move of the best path so far (NoMove for None)
    best_score,\* search: best score so far
    result     \* search: the value returned

vars == <<heap, game, pre, last, engine, fpile, fret, stock, waste, waste0,
          drawn, rpc, recycler, probe, call, pc, max_depth, visited, queue, current,
          legal, mi, stack, best_move, best_score, result>>

searchVars == <<pc, max_depth, visited, queue, current, legal, mi, stack,
                best_move, best_score, result>>

playVars == <<heap, game, pre, last, engine>>
foundVars == <<fpile, fret>>
recycleVars == <<stock, waste, waste0, drawn, rpc, recycler>>

---------------------------------------------------------------------------
(* config.py *)

SUITS == <<"H", "D", "C", "S">>

SuitSet == {SUITS[k] : k \in 1..Len(SUITS)}

RANKS == 1..13

ACE == 1

KING == 13

\* Number of tableau columns dealt (BOARD_COLUMNS, 7 in config.py).
BOARD_COLUMNS == 3

Columns == 0..(BOARD_COLUMNS - 1)

---------------------------------------------------------------------------
(* cards.py *)

Card(rank, suit, revealed) == [rank |-> rank, suit |-> suit, revealed |-> revealed]

\* Python's None where a Card is expected.
None == [rank |-> 0, suit |-> "None", revealed |-> FALSE]

is_red(card) == card.suit \in {"H", "D"}

is_black(card) == card.suit \in {"C", "S"}

\* A card's identity.
Id(card) == <<card.rank, card.suit>>

AllCards == {Card(r, s, b) : r \in RANKS, s \in SuitSet, b \in BOOLEAN}

---------------------------------------------------------------------------
(* Sequence helpers *)

Last(s) == s[Len(s)]

Front(s) == SubSeq(s, 1, Len(s) - 1)

Rev(s) == [k \in 1..Len(s) |-> s[Len(s) + 1 - k]]

Range(s) == {s[k] : k \in 1..Len(s)}

RECURSIVE Flatten(_)
Flatten(ss) ==
    CHOOSE flat \in {IF s = <<>> THEN <<>> ELSE Head(s) \o Flatten(Tail(s)) : s \in {ss}} : TRUE

---------------------------------------------------------------------------
(* foundation.py *)

FoundationPile(suit) == [suit |-> suit, cards |-> <<>>]

\* Mutant: can_add without the suit test.
FoundationPile_can_add_any_suit(pile, card) ==
    IF Len(pile.cards) = 0 THEN card.rank = 1
    ELSE card.rank = pile.cards[Len(pile.cards)].rank + 1

\* Mutant: any higher rank is taken where the code wants the next one.
FoundationPile_can_add_higher(pile, card) ==
    IF card.suit # pile.suit THEN FALSE
    ELSE IF Len(pile.cards) = 0 THEN card.rank = ACE
    ELSE card.rank > Last(pile.cards).rank

FoundationPile_can_add(pile, card) ==
    IF card.suit # pile.suit THEN FALSE
    ELSE IF Len(pile.cards) = 0 THEN card.rank = ACE
    ELSE card.rank = Last(pile.cards).rank + 1

\* Mutant: add turns the card face-up, as BoardPile.add does.
FoundationPile_add_faceup(pile, card) ==
    IF FoundationPile_can_add(pile, card)
    THEN [pile |-> [pile EXCEPT !.cards = Append(@, [card EXCEPT !.revealed = TRUE])],
          ret |-> TRUE]
    ELSE [pile |-> pile, ret |-> FALSE]

\* Returns the pile after the call and the returned flag.
FoundationPile_add(pile, card) ==
    IF FoundationPile_can_add(pile, card)
    THEN [pile |-> [pile EXCEPT !.cards = Append(@, card)], ret |-> TRUE]
    ELSE [pile |-> pile, ret |-> FALSE]

---------------------------------------------------------------------------
(* board.py *)

BoardPile == [cards |-> <<>>]

\* Mutant: the card physically on top, face-up or not.
BoardPile_get_top_card(pile) == pile.cards[Len(pile.cards)]

\* The last face-up card of the pile, scanning from the top; None if none.
BoardPile_get_top_revealed_card(pile) ==
    LET up == {k \in 1..Len(pile.cards) : pile.cards[k].revealed}
    IN IF up = {} THEN None
       ELSE pile.cards[CHOOSE k \in up : \A m \in up : m <= k]

\* Mutant: compares suits where the code compares colors.
BoardPile_opposite_suits(card1, card2) == card1.suit # card2.suit

BoardPile_opposite_colors(card1, card2) == is_red(card1) # is_red(card2)

BoardPile_can_add(pile, card) ==
    IF Len(pile.cards) = 0 THEN card.rank = KING
    ELSE LET top_card == BoardPile_get_top_revealed_card(pile)
         IN IF top_card = None THEN FALSE
            ELSE IF card.rank # top_card.rank - 1 THEN FALSE
            ELSE BoardPile_opposite_colors(card, top_card)

BoardPile_add(pile, card) ==
    IF BoardPile_can_add(pile, card)
    THEN [pile |-> [pile EXCEPT !.cards = Append(@, [card EXCEPT !.revealed = TRUE])],
          ret |-> TRUE]
    ELSE [pile |-> pile, ret |-> FALSE]

BoardPile_peek(pile) == IF Len(pile.cards) > 0 THEN Last(pile.cards) ELSE None

\* Mutant: pop returns the top card and leaves it on the pile.
BoardPile_pop_keep(pile) ==
    IF Len(pile.cards) > 0
    THEN [pile |-> pile, ret |-> Last(pile.cards)]
    ELSE [pile |-> pile, ret |-> None]

BoardPile_pop(pile) ==
    IF Len(pile.cards) > 0
    THEN [pile |-> [pile EXCEPT !.cards = Front(@)], ret |-> Last(pile.cards)]
    ELSE [pile |-> pile, ret |-> None]

\* `pile.cards[-1].revealed = True` / `pile.peek().revealed = True`
BoardPile_reveal_top(pile) ==
    [pile EXCEPT !.cards = [@ EXCEPT ![Len(@)] = [@ EXCEPT !.revealed = TRUE]]]

---------------------------------------------------------------------------
(* waste.py *)

WastePile == [cards |-> <<>>]

\* Raises AttributeError when card is None (None has no attribute revealed).
WastePile_add(pile, card) ==
    IF card = None
    THEN [pile |-> pile, err |-> "AttributeError"]
    ELSE [pile |-> [pile EXCEPT !.cards = Append(@, [card EXCEPT !.revealed = TRUE])],
          err |-> "none"]

WastePile_peek(pile) == IF Len(pile.cards) > 0 THEN Last(pile.cards) ELSE None

\* Mutant: pop returns the top card and leaves it on the pile.
WastePile_pop_keep(pile) ==
    IF Len(pile.cards) > 0
    THEN [pile |-> pile, ret |-> Last(pile.cards)]
    ELSE [pile |-> pile, ret |-> None]

WastePile_pop(pile) ==
    IF Len(pile.cards) > 0
    THEN [pile |-> [pile EXCEPT !.cards = Front(@)], ret |-> Last(pile.cards)]
    ELSE [pile |-> pile, ret |-> None]

---------------------------------------------------------------------------
(* stock.py *)

StockPile == [cards |-> <<>>]

\* Mutant: draw takes two cards off the stock and returns the top one.
StockPile_draw_two(pile) ==
    IF Len(pile.cards) > 0
    THEN [pile |-> [pile EXCEPT !.cards = IF Len(@) > 1 THEN Front(Front(@)) ELSE Front(@)],
          ret |-> Last(pile.cards)]
    ELSE [pile |-> pile, ret |-> None]

StockPile_draw(pile) ==
    IF Len(pile.cards) > 0
    THEN [pile |-> [pile EXCEPT !.cards = Front(@)], ret |-> Last(pile.cards)]
    ELSE [pile |-> pile, ret |-> None]

StockPile_add(pile, card) ==
    [pile EXCEPT !.cards = Append(@, [card EXCEPT !.revealed = FALSE])]

\* while waste.cards: c = waste.cards.pop(0); c.flip(); self.cards.append(c)
RECURSIVE StockPile_recycle_waste(_, _)
StockPile_recycle_waste(pile, wst) ==
    IF Len(wst.cards) = 0 THEN [stock |-> pile, waste |-> wst]
    ELSE LET waste_card == Head(wst.cards)
             flipped == [waste_card EXCEPT !.revealed = ~@]
         IN StockPile_recycle_waste([pile EXCEPT !.cards = Append(@, flipped)],
                                    [wst EXCEPT !.cards = Tail(@)])

\* Mutant: recycle_from without `card.revealed = False`.
RECURSIVE StockPile_recycle_from_faceup(_, _)
StockPile_recycle_from_faceup(pile, wst) ==
    IF Len(wst.cards) = 0 THEN [stock |-> pile, waste |-> wst]
    ELSE StockPile_recycle_from_faceup([pile EXCEPT !.cards = Append(@, Last(wst.cards))],
                                       [wst EXCEPT !.cards = Front(@)])

\* Mutant: takes the waste from its bottom (pop(0)) where the code pops its top.
RECURSIVE StockPile_recycle_from_bottom(_, _)
StockPile_recycle_from_bottom(pile, wst) ==
    IF Len(wst.cards) = 0 THEN [stock |-> pile, waste |-> wst]
    ELSE LET card == Head(wst.cards)
             down == [card EXCEPT !.revealed = FALSE]
         IN StockPile_recycle_from_bottom([pile EXCEPT !.cards = Append(@, down)],
                                          [wst EXCEPT !.cards = Tail(@)])

\* while waste.cards: c = waste.cards.pop(); c.revealed = False; self.cards.append(c)
RECURSIVE StockPile_recycle_from(_, _)
StockPile_recycle_from(pile, wst) ==
    IF Len(wst.cards) = 0 THEN [stock |-> pile, waste |-> wst]
    ELSE LET card == Last(wst.cards)
             down == [card EXCEPT !.revealed = FALSE]
         IN StockPile_recycle_from([pile EXCEPT !.cards = Append(@, down)],
                                   [wst EXCEPT !.cards = Front(@)])

---------------------------------------------------------------------------
(* main.py: SolitaireGame, create_deck, deal_cards *)

\* The cards in play: config.RANKS and config.SUITS restricted to a small deck.
DeckRanks == {1, 2, 3, 13}

DeckSuits == <<"H", "D", "S">>

\* create_deck before the shuffle: for suit in SUITS: for rank in RANKS.
RECURSIVE RanksAscending(_)
RanksAscending(rs) ==
    IF rs = {} THEN <<>>
    ELSE LET r == CHOOSE x \in rs : \A y \in rs : x <= y
         IN <<r>> \o RanksAscending(rs \ {r})

BaseDeck ==
    Flatten([k \in 1..Len(DeckSuits) |->
        LET rs == RanksAscending(DeckRanks)
        IN [m \in 1..Len(rs) |-> Card(rs[m], DeckSuits[k], FALSE)]])

\* random.shuffle: the permutations p -> (a * p + k) mod n of the deck, for
\* the seeds <<a, k>> below.
Seeds == {<<1, 1>>, <<1, 5>>, <<5, 1>>, <<5, 2>>, <<7, 7>>, <<7, 11>>}

Shuffle(deck, a, k) ==
    [p \in 1..Len(deck) |-> deck[((a * (p - 1) + k) % Len(deck)) + 1]]

Decks == {Shuffle(BaseDeck, sd[1], sd[2]) : sd \in Seeds}

\* for i in range(deck_index, len(deck)): self.stock.add(deck[i])
RECURSIVE StockPile_add_all(_, _)
StockPile_add_all(pile, cards) ==
    IF cards = <<>> THEN pile
    ELSE StockPile_add_all(StockPile_add(pile, Head(cards)), Tail(cards))

\* Index (0-based) of the first card of column i in the deck: 0 + 1 + ... + i.
ColStart(i) == (i * (i + 1)) \div 2

deal_cards(deck) ==
    LET dealt == ColStart(BOARD_COLUMNS)
        column(i) == [cards |-> [j \in 1..(i + 1) |->
                        [deck[ColStart(i) + j] EXCEPT !.revealed = (j - 1 = i)]]]
        rest == SubSeq(deck, dealt + 1, Len(deck))
    IN [stock |-> StockPile_add_all(StockPile, rest),
        waste |-> WastePile,
        foundations |-> [s \in SuitSet |-> FoundationPile(s)],
        Board |-> [i \in Columns |-> column(i)]]

---------------------------------------------------------------------------
(* Move (best_move_graph.py / best_move_tree.py) *)

NoCol == -1

Move(move_type, from, to, column, card) ==
    [move_type |-> move_type, from |-> from, to |-> to, column |-> column, card |-> card]

NoMove == Move("none", NoCol, NoCol, NoCol, None)

MoveTypes == {"draw_stock", "reset_stock", "waste_to_foundation", "waste_to_board",
              "board_to_foundation", "board_to_board"}

\* Python list.sort(key=...): stable, ascending in the key. `ks` is the list
\* decorated with its keys, <<key, item>>; an item goes after the items with a
\* smaller key and after the earlier items with an equal key.
\* (CHOOSE r \in {e(v) : v \in {x}} : TRUE is e(x), with x evaluated once.)
SortDecorated(list) ==
    CHOOSE sorted \in
        {LET n == Len(ks)
             before(i, j) == ks[i][1] < ks[j][1] \/ (ks[i][1] = ks[j][1] /\ i < j)
             place(j) == Cardinality({i \in 1..n : before(i, j)}) + 1
         IN [p \in 1..n |-> ks[CHOOSE j \in 1..n : place(j) = p]] : ks \in {list}} : TRUE

Undecorate(ks) == [k \in 1..Len(ks) |-> ks[k][2]]

---------------------------------------------------------------------------
(* get_legal_moves: the part both engines share word for word *)

\* for i, pile in enumerate(game.Board): if pile.can_add(card): waste_to_board
waste_to_board_moves(g, card) ==
    LET all == [k \in 1..BOARD_COLUMNS |-> Move("waste_to_board", NoCol, NoCol, k - 1, card)]
    IN SelectSeq(all, LAMBDA m : BoardPile_can_add(g.Board[m.column], card))

\* Mutant: waste_to_foundation emitted without asking the foundation.
waste_moves_unchecked(g) ==
    IF Len(g.waste.cards) > 0
    THEN LET card == WastePile_peek(g.waste)
         IN <<Move("waste_to_foundation", NoCol, NoCol, NoCol, card)>>
            \o waste_to_board_moves(g, card)
    ELSE <<>>

waste_moves(g) ==
    IF Len(g.waste.cards) > 0
    THEN LET card == WastePile_peek(g.waste)
         IN (IF FoundationPile_can_add(g.foundations[card.suit], card)
             THEN <<Move("waste_to_foundation", NoCol, NoCol, NoCol, card)>>
             ELSE <<>>)
            \o waste_to_board_moves(g, card)
    ELSE <<>>

\* for j, dst in enumerate(game.Board): if i == j: continue; if dst.can_add(card)
board_to_board_moves(g, i, card) ==
    LET all == [k \in 1..BOARD_COLUMNS |-> Move("board_to_board", i, k - 1, NoCol, card)]
    IN SelectSeq(all, LAMBDA m : m.to # i /\ BoardPile_can_add(g.Board[m.to], card))

column_moves(g, i) ==
    IF Len(g.Board[i].cards) = 0 THEN <<>>
    ELSE LET card == BoardPile_peek(g.Board[i])
         IN (IF FoundationPile_can_add(g.foundations[card.suit], card)
             THEN <<Move("board_to_foundation", i, NoCol, NoCol, card)>>
             ELSE <<>>)
            \o board_to_board_moves(g, i, card)

board_moves(g) == Flatten([k \in 1..BOARD_COLUMNS |-> column_moves(g, k - 1)])

\* Mutant: `if` where the code has `elif`.
stock_moves_if(g) ==
    (IF Len(g.stock.cards) > 0 THEN <<Move("draw_stock", NoCol, NoCol, NoCol, None)>>
     ELSE <<>>)
    \o (IF Len(g.waste.cards) > 0 THEN <<Move("reset_stock", NoCol, NoCol, NoCol, None)>>
        ELSE <<>>)

stock_moves(g) ==
    IF Len(g.stock.cards) > 0 THEN <<Move("draw_stock", NoCol, NoCol, NoCol, None)>>
    ELSE IF Len(g.waste.cards) > 0 THEN <<Move("reset_stock", NoCol, NoCol, NoCol, None)>>
    ELSE <<>>

\* best_move_graph.get_legal_moves.priority
priority(m) ==
    IF m.move_type \in {"waste_to_foundation", "board_to_foundation"} THEN 3
    ELSE IF m.move_type \in {"board_to_board", "waste_to_board"} THEN 2
    ELSE IF m.move_type = "draw_stock" THEN 1
    ELSE 0

\* Mutant: the sort without reverse=True.
sort_priority_ascending(moves) ==
    CHOOSE sorted \in
        {Undecorate(SortDecorated([k \in 1..Len(ms) |-> <<priority(ms[k]), ms[k]>>])) :
            ms \in {moves}} : TRUE

\* moves.sort(key=priority, reverse=True): stable, descending in the key.
sort_priority_reverse(moves) ==
    CHOOSE sorted \in
        {Undecorate(SortDecorated([k \in 1..Len(ms) |-> <<0 - priority(ms[k]), ms[k]>>])) :
            ms \in {moves}} : TRUE

\* best_move_graph.get_legal_moves
get_legal_moves_graph(g) ==
    sort_priority_reverse(waste_moves(g) \o board_moves(g) \o stock_moves(g))

\* best_move_tree.get_legal_moves (unsorted)
get_legal_moves_tree(g) == waste_moves(g) \o board_moves(g) \o stock_moves(g)

\* best_move_tree.find_best_move_tree.dfs.move_priority: substring tests on the type
move_priority(m) ==
    IF m.move_type \in {"waste_to_foundation", "board_to_foundation"} THEN 0
    ELSE IF m.move_type \in {"board_to_board", "waste_to_board", "board_to_foundation"} THEN 1
    ELSE 2

\* moves.sort(key=move_priority)
sort_move_priority(moves) ==
    CHOOSE sorted \in
        {Undecorate(SortDecorated([k \in 1..Len(ms) |-> <<move_priority(ms[k]), ms[k]>>])) :
            ms \in {moves}} : TRUE

\* The list the depth engine tries at a state: get_legal_moves, then the sort.
dfs_moves(g) == sort_move_priority(get_legal_moves_tree(g))

---------------------------------------------------------------------------
(* apply_move *)

\* A copy that is the object itself: what apply_move would work on without
\* the deepcopy.
deepcopy_alias(h, ref) == [heap |-> h, g |-> ref]

\* copy.deepcopy(game): a new object holding a copy of every pile and card.
\* An unused reference.
NewRef(h) == (CHOOSE r \in DOMAIN h : \A q \in DOMAIN h : q <= r) + 1

deepcopy(h, ref) == [heap |-> (NewRef(h) :> h[ref]) @@ h, g |-> NewRef(h)]

\* BoardPile.add(card) raises AttributeError when it reads card.rank of None:
\* on an empty pile, or on a pile that has a face-up card.
BoardPile_add_raises(pile, card) ==
    /\ card = None
    /\ \/ Len(pile.cards) = 0
       \/ BoardPile_get_top_revealed_card(pile) # None

Ok(g) == [g |-> g, err |-> "none"]

Raise(g) == [g |-> g, err |-> "AttributeError"]

\* The statements of best_move_graph.apply_move after the deepcopy, run on
\* the game object g; err names the exception that ends them, if any.
graph_mutate(g, move) ==
    LET t == move.move_type
    IN
    IF t = "draw_stock" THEN
        LET d == StockPile_draw(g.stock)
            a == WastePile_add(g.waste, d.ret)
        IN [g |-> [g EXCEPT !.stock = d.pile, !.waste = a.pile], err |-> a.err]
    ELSE IF t = "reset_stock" THEN
        LET r == StockPile_recycle_from(g.stock, g.waste)
        IN Ok([g EXCEPT !.stock = r.stock, !.waste = r.waste])
    ELSE IF t = "waste_to_foundation" THEN
        LET p == WastePile_pop(g.waste)
            card == p.ret
            g1 == [g EXCEPT !.waste = p.pile]
        IN IF card = None THEN Raise(g1)
           ELSE Ok([g1 EXCEPT !.foundations[card.suit] =
                                  FoundationPile_add(@, card).pile])
    ELSE IF t = "waste_to_board" THEN
        LET p == WastePile_pop(g.waste)
            card == p.ret
            g1 == [g EXCEPT !.waste = p.pile]
        IN IF BoardPile_add_raises(g1.Board[move.column], card) THEN Raise(g1)
           ELSE Ok([g1 EXCEPT !.Board[move.column] = BoardPile_add(@, card).pile])
    ELSE IF t = "board_to_foundation" THEN
        LET col == move.from
            p == BoardPile_pop(g.Board[col])
            card == p.ret
            g1 == [g EXCEPT !.Board[col] = p.pile]
        IN IF card = None THEN Raise(g1)
           ELSE LET g2 == [g1 EXCEPT !.foundations[card.suit] =
                                         FoundationPile_add(@, card).pile]
                IN IF Len(g2.Board[col].cards) > 0
                   THEN Ok([g2 EXCEPT !.Board[col] = BoardPile_reveal_top(@)])
                   ELSE Ok(g2)
    ELSE IF t = "board_to_board" THEN
        LET src == move.from
            dst == move.to
            p == BoardPile_pop(g.Board[src])
            card == p.ret
            g1 == [g EXCEPT !.Board[src] = p.pile]
        IN IF BoardPile_add_raises(g1.Board[dst], card) THEN Raise(g1)
           ELSE LET g2 == [g1 EXCEPT !.Board[dst] = BoardPile_add(@, card).pile]
                IN IF Len(g2.Board[src].cards) > 0
                   THEN Ok([g2 EXCEPT !.Board[src] = BoardPile_reveal_top(@)])
                   ELSE Ok(g2)
    ELSE Ok(g)

\* best_move_graph.apply_move: g = copy.deepcopy(game), then mutate g, return g.
apply_move_graph(h, ref, move) ==
    CHOOSE out \in
        {[heap |-> [c.heap EXCEPT ![c.g] = r.g], g |-> c.g, err |-> r.err] :
            <<c, r>> \in {<<c, graph_mutate(c.heap[c.g], move)>> : c \in {deepcopy(h, ref)}}} : TRUE

\* The statements of best_move_tree.apply_move after the deepcopy.  The top
\* of the source column is revealed through peek(); the except branch (a pile
\* without peek) is dead for BoardPile.
tree_mutate(g, move) ==
    LET t == move.move_type
    IN
    IF t = "draw_stock" THEN
        LET d == StockPile_draw(g.stock)
            a == WastePile_add(g.waste, d.ret)
        IN [g |-> [g EXCEPT !.stock = d.pile, !.waste = a.pile], err |-> a.err]
    ELSE IF t = "reset_stock" THEN
        LET r == StockPile_recycle_from(g.stock, g.waste)
        IN Ok([g EXCEPT !.stock = r.stock, !.waste = r.waste])
    ELSE IF t = "waste_to_foundation" THEN
        LET p == WastePile_pop(g.waste)
            c == p.ret
            g1 == [g EXCEPT !.waste = p.pile]
        IN IF c = None THEN Raise(g1)
           ELSE Ok([g1 EXCEPT !.foundations[c.suit] = FoundationPile_add(@, c).pile])
    ELSE IF t = "waste_to_board" THEN
        LET p == WastePile_pop(g.waste)
            c == p.ret
            g1 == [g EXCEPT !.waste = p.pile]
        IN IF BoardPile_add_raises(g1.Board[move.column], c) THEN Raise(g1)
           ELSE Ok([g1 EXCEPT !.Board[move.column] = BoardPile_add(@, c).pile])
    ELSE IF t = "board_to_foundation" THEN
        LET col == move.from
            p == BoardPile_pop(g.Board[col])
            c == p.ret
            g1 == [g EXCEPT !.Board[col] = p.pile]
        IN IF c = None THEN Raise(g1)
           ELSE LET g2 == [g1 EXCEPT !.foundations[c.suit] =
                                         FoundationPile_add(@, c).pile]
                IN IF Len(g2.Board[col].cards) > 0
                   THEN Ok([g2 EXCEPT !.Board[col] = BoardPile_reveal_top(@)])
                   ELSE Ok(g2)
    ELSE IF t = "board_to_board" THEN
        LET src == move.from
            dst == move.to
            p == BoardPile_pop(g.Board[src])
            c == p.ret
            g1 == [g EXCEPT !.Board[src] = p.pile]
        IN IF BoardPile_add_raises(g1.Board[dst], c) THEN Raise(g1)
           ELSE LET g2 == [g1 EXCEPT !.Board[dst] = BoardPile_add(@, c).pile]
                IN IF Len(g2.Board[src].cards) > 0
                   THEN Ok([g2 EXCEPT !.Board[src] = BoardPile_reveal_top(@)])
                   ELSE Ok(g2)
    ELSE Ok(g)

\* best_move_tree.apply_move
apply_move_tree(h, ref, move) ==
    CHOOSE out \in
        {[heap |-> [c.heap EXCEPT ![c.g] = r.g], g |-> c.g, err |-> r.err] :
            <<c, r>> \in {<<c, tree_mutate(c.heap[c.g], move)>> : c \in {deepcopy(h, ref)}}} : TRUE

Engines == {"graph", "tree"}

\* The moves engine e tries at game value g, in the order it tries them.
legal_moves(e, g) == IF e = "graph" THEN get_legal_moves_graph(g) ELSE dfs_moves(g)

apply_move(e, h, ref, move) ==
    IF e = "graph" THEN apply_move_graph(h, ref, move) ELSE apply_move_tree(h, ref, move)

---------------------------------------------------------------------------
(* Play: a dealt game advanced by the engines' own moves *)

\* The harness variables of the other specifications, parked.
FoundIdle == fpile = FoundationPile("H") /\ fret = FALSE

RecycleIdle ==
    /\ stock = StockPile
    /\ waste = WastePile
    /\ waste0 = <<>>
    /\ drawn = <<>>
    /\ rpc = "idle"
    /\ recycler = "none"

NoProbe == [move |-> NoMove, engine |-> "none", err |-> "none", before |-> <<>>,
            after |-> <<>>]

ProbeIdle == probe = NoProbe

NoCall == [fn |-> "none", args |-> <<>>, ret |-> FALSE]

CallIdle == call = NoCall

NoEntry == [state |-> 0, depth |-> 0, first_move |-> NoMove]

SearchIdle ==
    /\ pc = "idle"
    /\ max_depth = 0
    /\ visited = {}
    /\ queue = <<>>
    /\ current = NoEntry
    /\ legal = <<>>
    /\ mi = 0
    /\ stack = <<>>
    /\ best_move = NoMove
    /\ best_score = 0
    /\ result = <<>>

\* The current game value.
Cur == heap[game]

Init ==
    /\ \E deck \in Decks :
          /\ heap = <<deal_cards(deck)>>
          /\ pre = deal_cards(deck)
    /\ game = 1
    /\ last = NoMove
    /\ engine = "none"
    /\ FoundIdle
    /\ RecycleIdle
    /\ ProbeIdle
    /\ CallIdle
    /\ SearchIdle

\* One ply: engine e applies move mv to the current game object.  Afterwards
\* the heap keeps two cells: the input object and the object returned.
Step(e, mv) ==
    LET r == apply_move(e, heap, game, mv)
    IN /\ r.err = "none"
       /\ heap' = <<r.heap[game], r.heap[r.g]>>
       /\ game' = 2
       /\ pre' = heap[game]
       /\ last' = mv
       /\ engine' = e
       /\ probe' = NoProbe
       /\ UNCHANGED <<foundVars, call, recycleVars, searchVars>>

Emitted(e, t) == {m \in Range(legal_moves(e, Cur)) : m.move_type = t}

DrawStock == \E e \in Engines : \E mv \in Emitted(e, "draw_stock") : Step(e, mv)

ResetStock == \E e \in Engines : \E mv \in Emitted(e, "reset_stock") : Step(e, mv)

WasteToFoundation ==
    \E e \in Engines : \E mv \in Emitted(e, "waste_to_foundation") : Step(e, mv)

WasteToTableau == \E e \in Engines : \E mv \in Emitted(e, "waste_to_board") : Step(e, mv)

TableauToFoundation ==
    \E e \in Engines : \E mv \in Emitted(e, "board_to_foundation") : Step(e, mv)

TableauToTableau == \E e \in Engines : \E mv \in Emitted(e, "board_to_board") : Step(e, mv)

Next ==
    \/ DrawStock
    \/ ResetStock
    \/ WasteToFoundation
    \/ WasteToTableau
    \/ TableauToFoundation
    \/ TableauToTableau

Spec == Init /\ [][Next]_vars

---------------------------------------------------------------------------
(* Properties of the played game *)

\* Every card of game value g, pile by pile.
PileCards(g) ==
    g.stock.cards \o g.waste.cards
    \o Flatten([k \in 1..Len(SUITS) |-> g.foundations[SUITS[k]].cards])
    \o Flatten([k \in 1..BOARD_COLUMNS |-> g.Board[k - 1].cards])

DeckIds == {Id(c) : c \in Range(BaseDeck)}

\* C1: in every state reached from a deal by the engines' moves, the piles
\* together hold exactly the dealt cards, each (rank, suit) exactly once.
C1_CardsConserved ==
    LET all == PileCards(Cur)
    IN /\ Len(all) = Cardinality(DeckIds)
       /\ {Id(c) : c \in Range(all)} = DeckIds

\* A card has reached a foundation from a column and cards lie in the waste.
C1_Witness ==
    /\ last.move_type = "board_to_board"
    /\ \E s \in SuitSet : Len(Cur.foundations[s].cards) >= 2
    /\ Len(Cur.waste.cards) > 0

\* C3: in every column the face-up cards are a suffix that includes the top
\* card, and each face-up card below the top is followed by a card one rank
\* lower and of the opposite color.
ColumnOrdered(cs) ==
    /\ Len(cs) > 0 => Last(cs).revealed
    /\ \A k \in 1..(Len(cs) - 1) :
          cs[k].revealed =>
             /\ cs[k + 1].revealed
             /\ cs[k + 1].rank = cs[k].rank - 1
             /\ is_red(cs[k + 1]) # is_red(cs[k])

C3_TableauOrdered == \A i \in Columns : ColumnOrdered(Cur.Board[i].cards)

\* A card was just laid on a column that now shows a face-up run of at least
\* two cards over a face-down card.
C3_Witness ==
    /\ last.move_type \in {"board_to_board", "waste_to_board"}
    /\ \E i \in Columns :
          LET cs == Cur.Board[i].cards
          IN /\ Len(cs) >= 3
             /\ ~cs[1].revealed
             /\ cs[Len(cs) - 1].revealed

\* C4: every stock card is face-down and every waste card is face-up.
C4_StockDownWasteUp ==
    /\ \A k \in 1..Len(Cur.stock.cards) : ~Cur.stock.cards[k].revealed
    /\ \A k \in 1..Len(Cur.waste.cards) : Cur.waste.cards[k].revealed

\* The waste, all face-up, has just been recycled into the stock.
C4_Witness ==
    /\ last.move_type = "reset_stock"
    /\ Len(pre.waste.cards) >= 2
    /\ Len(Cur.stock.cards) >= 2

StockTypes == {"draw_stock", "reset_stock"}

\* The waste- and tableau-sourced moves the rules allow in game value g.
AllowedMoves(g) ==
    LET w == WastePile_peek(g.waste)
        top(i) == BoardPile_peek(g.Board[i])
    IN {Move("waste_to_foundation", NoCol, NoCol, NoCol, w) : x \in
            {x \in {0} : /\ Len(g.waste.cards) > 0
                         /\ FoundationPile_can_add(g.foundations[w.suit], w)}}
       \cup {Move("waste_to_board", NoCol, NoCol, j, w) : j \in
            {j \in Columns : /\ Len(g.waste.cards) > 0
                             /\ BoardPile_can_add(g.Board[j], w)}}
       \cup {Move("board_to_foundation", i, NoCol, NoCol, top(i)) : i \in
            {i \in Columns : /\ Len(g.Board[i].cards) > 0
                             /\ FoundationPile_can_add(g.foundations[top(i).suit], top(i))}}
       \cup {Move("board_to_board", ij[1], ij[2], NoCol, top(ij[1])) : ij \in
            {ij \in Columns \X Columns :
                 /\ ij[1] # ij[2]
                 /\ Len(g.Board[ij[1]].cards) > 0
                 /\ BoardPile_can_add(g.Board[ij[2]], top(ij[1]))}}

NoDuplicates(seq) == \A a, b \in 1..Len(seq) : seq[a] = seq[b] => a = b

\* C5: each engine's generator emits exactly the allowed waste- and
\* tableau-sourced moves, each once.
C5_GeneratorExact ==
    \A e \in Engines :
        LET moves == legal_moves(e, Cur)
        IN /\ {m \in Range(moves) : m.move_type \notin StockTypes} = AllowedMoves(Cur)
           /\ NoDuplicates(moves)

\* All four kinds are emitted in one state, and some column refuses the
\* waste top.
C5_Witness ==
    /\ last # NoMove
    /\ \A t \in MoveTypes \ StockTypes :
          \E m \in AllowedMoves(Cur) : m.move_type = t
    /\ \E j \in Columns : Move("waste_to_board", NoCol, NoCol, j, WastePile_peek(Cur.waste))
                              \notin AllowedMoves(Cur)

\* C6: DrawStock is emitted iff the stock is non-empty, ResetStock iff the
\* stock is empty and the waste is not; never both, neither when both are empty.
C6_StockMoves ==
    \A e \in Engines :
        LET types == {m.move_type : m \in Range(legal_moves(e, Cur))}
        IN /\ "draw_stock" \in types <=> Len(Cur.stock.cards) > 0
           /\ "reset_stock" \in types <=>
                 (Len(Cur.stock.cards) = 0 /\ Len(Cur.waste.cards) > 0)
           /\ ~("draw_stock" \in types /\ "reset_stock" \in types)
           /\ (Len(Cur.stock.cards) = 0 /\ Len(Cur.waste.cards) = 0)
                 => types \cap StockTypes = {}

\* The last stock card has just been drawn: the waste is full, the stock empty.
C6_Witness ==
    /\ last.move_type = "draw_stock"
    /\ Len(Cur.stock.cards) = 0
    /\ Len(Cur.waste.cards) >= 2

\* Priority class of a move: foundation-directed, tableau-directed, stock.
MoveClass(m) ==
    IF m.move_type \in {"waste_to_foundation", "board_to_foundation"} THEN 0
    ELSE IF m.move_type \in {"waste_to_board", "board_to_board"} THEN 1
    ELSE 2

\* Discovery position of a move: its source (the waste before column 0),
\* then its destination column.
Source(m) == IF m.move_type \in {"waste_to_foundation", "waste_to_board"} THEN -1 ELSE m.from

Destination(m) == IF m.move_type = "waste_to_board" THEN m.column ELSE m.to

DiscoveredBefore(a, b) ==
    \/ Source(a) < Source(b)
    \/ Source(a) = Source(b) /\ Destination(a) < Destination(b)

\* C7: each engine tries foundation-directed moves first, tableau-directed
\* moves next and stock moves last, and moves of one class in discovery order.
C7_PriorityOrder ==
    \A e \in Engines :
        LET moves == legal_moves(e, Cur)
        IN \A a, b \in 1..Len(moves) :
              a < b =>
                 /\ MoveClass(moves[a]) <= MoveClass(moves[b])
                 /\ MoveClass(moves[a]) = MoveClass(moves[b])
                       => DiscoveredBefore(moves[a], moves[b])

\* The sort reorders the discovered list, which holds all three classes and
\* two tableau-directed moves.
C7_Witness ==
    /\ last # NoMove
    /\ get_legal_moves_graph(Cur) # get_legal_moves_tree(Cur)
    /\ {MoveClass(m) : m \in Range(get_legal_moves_graph(Cur))} = {0, 1, 2}
    /\ Cardinality({m \in Range(get_legal_moves_graph(Cur)) : MoveClass(m) = 1}) >= 2

---------------------------------------------------------------------------
(* FoundationPile on its own: any card offered to add, any number of times *)

PlayIdle ==
    /\ heap = <<>>
    /\ game = 0
    /\ pre = <<>>
    /\ last = NoMove
    /\ engine = "none"

\* Highest rank offered to the pile.
MaxOfferedRank == 5

OfferedCards == {Card(r, s, b) : r \in 1..MaxOfferedRank, s \in SuitSet, b \in BOOLEAN}

InitFoundation ==
    /\ \E s \in SuitSet : fpile = FoundationPile(s)
    /\ fret = FALSE
    /\ PlayIdle
    /\ RecycleIdle
    /\ ProbeIdle
    /\ CallIdle
    /\ SearchIdle

FoundationAdd ==
    \E card \in OfferedCards :
        LET r == FoundationPile_add(fpile, card)
        IN /\ fpile' = r.pile
           /\ fret' = r.ret
           /\ UNCHANGED <<playVars, recycleVars, probe, call, searchVars>>

NextFoundation == FoundationAdd

SpecFoundation == InitFoundation /\ [][NextFoundation]_vars

\* C2: after any sequence of add calls on an initially empty foundation of
\* suit s, the card at (1-based) position k has rank k and suit s.
C2_FoundationAscending ==
    \A k \in 1..Len(fpile.cards) :
        /\ fpile.cards[k].rank = k
        /\ fpile.cards[k].suit = fpile.suit

\* Three cards were accepted and the last offer was refused.
C2_Witness == Len(fpile.cards) >= 3 /\ fret = FALSE

---------------------------------------------------------------------------
(* StockPile recycling on its own: fill a waste, recycle it, draw it back *)

\* Longest waste recycled.
MaxWaste == 3

RecycleCards == {Card(2, "C", FALSE), Card(5, "D", FALSE), Card(9, "H", FALSE),
                 Card(13, "S", FALSE)}

InitRecycle ==
    /\ stock = StockPile
    /\ waste = WastePile
    /\ waste0 = <<>>
    /\ drawn = <<>>
    /\ rpc = "fill"
    /\ recycler = "none"
    /\ PlayIdle
    /\ FoundIdle
    /\ ProbeIdle
    /\ CallIdle
    /\ SearchIdle

WasteAdd ==
    /\ rpc = "fill"
    /\ Len(waste.cards) < MaxWaste
    /\ \E card \in RecycleCards :
          /\ \A k \in 1..Len(waste.cards) : Id(waste.cards[k]) # Id(card)
          /\ waste' = WastePile_add(waste, card).pile
    /\ UNCHANGED <<stock, waste0, drawn, rpc, recycler, playVars, foundVars, call, probe,
                   searchVars>>

RecycleFrom ==
    /\ rpc = "fill"
    /\ LET r == StockPile_recycle_from(stock, waste)
       IN stock' = r.stock /\ waste' = r.waste
    /\ waste0' = waste.cards
    /\ rpc' = "recycled"
    /\ recycler' = "recycle_from"
    /\ UNCHANGED <<drawn, playVars, foundVars, call, probe, searchVars>>

RecycleWaste ==
    /\ rpc = "fill"
    /\ LET r == StockPile_recycle_waste(stock, waste)
       IN stock' = r.stock /\ waste' = r.waste
    /\ waste0' = waste.cards
    /\ rpc' = "recycled"
    /\ recycler' = "recycle_waste"
    /\ UNCHANGED <<drawn, playVars, foundVars, call, probe, searchVars>>

Draw ==
    /\ rpc = "recycled"
    /\ LET d == StockPile_draw(stock)
       IN /\ d.ret # None
          /\ stock' = d.pile
          /\ drawn' = Append(drawn, d.ret)
    /\ UNCHANGED <<waste, waste0, rpc, recycler, playVars, foundVars, call, probe, searchVars>>

NextRecycle == WasteAdd \/ RecycleFrom \/ RecycleWaste \/ Draw

SpecRecycle == InitRecycle /\ [][NextRecycle]_vars

\* The k-th card drawn after the recycle is the k-th card from the top of
\* the waste that was recycled.
DrawsFromWasteTop ==
    \A k \in 1..Len(drawn) : Id(drawn[k]) = Id(waste0[Len(waste0) + 1 - k])

\* The k-th card drawn after the recycle is the k-th card from the bottom
\* of the waste that was recycled: the order the cards were first drawn in.
DrawsFromWasteBottom ==
    \A k \in 1..Len(drawn) : Id(drawn[k]) = Id(waste0[k])

---------------------------------------------------------------------------
(* apply_move on moves the generator did not emit *)

\* Deals probed.
ProbeSeeds == {<<7, 3>>}

ProbeDecks == {Shuffle(BaseDeck, sd[1], sd[2]) : sd \in ProbeSeeds}

\* The move vocabulary over the columns of the board (reset_stock aside).
Vocabulary ==
    {Move("draw_stock", NoCol, NoCol, NoCol, None),
     Move("waste_to_foundation", NoCol, NoCol, NoCol, None)}
    \cup {Move("waste_to_board", NoCol, NoCol, j, None) : j \in Columns}
    \cup {Move("board_to_foundation", i, NoCol, NoCol, None) : i \in Columns}
    \cup {Move("board_to_board", ij[1], ij[2], NoCol, None) :
               ij \in {ij \in Columns \X Columns : ij[1] # ij[2]}}

\* The move without its informational card payload.
Bare(m) == [m EXCEPT !.card = None]

\* mv's preconditions do not hold in game value g: the generator does not emit it.
Unsupported(e, g, mv) == \A m \in Range(legal_moves(e, g)) : Bare(m) # mv

InitProbe ==
    /\ \E deck \in ProbeDecks :
          /\ heap = <<deal_cards(deck)>>
          /\ pre = deal_cards(deck)
    /\ game = 1
    /\ last = NoMove
    /\ engine = "none"
    /\ FoundIdle
    /\ RecycleIdle
    /\ ProbeIdle
    /\ CallIdle
    /\ SearchIdle

\* Engine e's apply_move is called on the current game with an unsupported
\* move; the game itself is not advanced.
Probe ==
    \E e \in Engines : \E mv \in Vocabulary :
        /\ probe = NoProbe
        /\ Unsupported(e, Cur, mv)
        /\ LET r == apply_move(e, heap, game, mv)
           IN probe' = [move |-> mv, engine |-> e, err |-> r.err, before |-> Cur,
                        after |-> r.heap[r.g]]
        /\ UNCHANGED <<playVars, foundVars, call, recycleVars, searchVars>>

\* A probe's outcome is examined and dropped; play goes on from unprobed states.
NextProbe ==
    \/ probe = NoProbe /\ Next
    \/ Probe

SpecProbe == InitProbe /\ [][NextProbe]_vars

\* C9: apply_move on a move whose preconditions do not hold raises no error
\* and returns a state equal to its input.
C9_UnsupportedMoveIsNoOp ==
    probe.move # NoMove => probe.err = "none" /\ probe.after = probe.before

---------------------------------------------------------------------------
(* Canonical keys, scores and move descriptions *)

\* Position of a suit letter in string order ("Z" marks an empty column).
SuitOrd(suit) ==
    CASE suit = "C" -> 0
      [] suit = "D" -> 1
      [] suit = "H" -> 2
      [] suit = "S" -> 3
      [] OTHER -> 4

\* Tuples (rank, suit, revealed) compare as Python compares them; the code
\* below is increasing in exactly that order.
TupleCode(t) == (t[1] + 1) * 16 + SuitOrd(t[2]) * 2 + (IF t[3] THEN 1 ELSE 0)

\* best_move_graph.serialize_state.top_key
top_key(col) == IF col = <<>> THEN <<-1, "Z", FALSE>> ELSE Last(col)

pile_ser(cards) == [k \in 1..Len(cards) |-> <<cards[k].rank, cards[k].suit, cards[k].revealed>>]

ids_ser(cards) == [k \in 1..Len(cards) |-> <<cards[k].rank, cards[k].suit>>]

\* Mutant: the columns keyed in their seats, unsorted.
serialize_state_graph_unsorted(g) ==
    <<[k \in 1..BOARD_COLUMNS |-> pile_ser(g.Board[k - 1].cards)],
      [k \in 1..Len(SUITS) |-> ids_ser(g.foundations[SUITS[k]].cards)],
      ids_ser(g.stock.cards),
      ids_ser(g.waste.cards)>>

\* Mutant: a key of the columns and foundations only.
serialize_state_graph_no_stock(g) ==
    LET board_cols == [k \in 1..BOARD_COLUMNS |-> pile_ser(g.Board[k - 1].cards)]
    IN <<Undecorate(SortDecorated(
            [k \in 1..BOARD_COLUMNS |-> <<TupleCode(top_key(board_cols[k])), board_cols[k]>>])),
         [k \in 1..Len(SUITS) |-> ids_ser(g.foundations[SUITS[k]].cards)]>>

\* best_move_graph.serialize_state: columns sorted by their top card.
serialize_state_graph(g) ==
    LET board_cols == [k \in 1..BOARD_COLUMNS |-> pile_ser(g.Board[k - 1].cards)]
        board_ser == Undecorate(SortDecorated(
            [k \in 1..BOARD_COLUMNS |-> <<TupleCode(top_key(board_cols[k])), board_cols[k]>>]))
    IN <<board_ser,
         [k \in 1..Len(SUITS) |-> ids_ser(g.foundations[SUITS[k]].cards)],
         ids_ser(g.stock.cards),
         ids_ser(g.waste.cards)>>

\* Mutant: the columns keyed sorted by their top card.
serialize_state_tree_sorted(g) ==
    LET board_cols == [k \in 1..BOARD_COLUMNS |-> pile_ser(g.Board[k - 1].cards)]
    IN <<Undecorate(SortDecorated(
            [k \in 1..BOARD_COLUMNS |-> <<TupleCode(top_key(board_cols[k])), board_cols[k]>>])),
         [k \in 1..Len(SUITS) |-> ids_ser(g.foundations[SUITS[k]].cards)],
         ids_ser(g.stock.cards),
         ids_ser(g.waste.cards)>>

\* best_move_tree.serialize_state: columns in place.
serialize_state_tree(g) ==
    <<[k \in 1..BOARD_COLUMNS |-> pile_ser(g.Board[k - 1].cards)],
      [k \in 1..Len(SUITS) |-> ids_ser(g.foundations[SUITS[k]].cards)],
      ids_ser(g.stock.cards),
      ids_ser(g.waste.cards)>>

RECURSIVE SumSeq(_)
SumSeq(ns) ==
    CHOOSE sum \in {IF s = <<>> THEN 0 ELSE Head(s) + SumSeq(Tail(s)) : s \in {ns}} : TRUE

FoundationCount(g) == SumSeq([k \in 1..Len(SUITS) |-> Len(g.foundations[SUITS[k]].cards)])

RevealedCount(g) ==
    SumSeq([k \in 1..BOARD_COLUMNS |->
        Len(SelectSeq(g.Board[k - 1].cards, LAMBDA c : c.revealed))])

EmptyColumns(g) ==
    SumSeq([k \in 1..BOARD_COLUMNS |-> IF Len(g.Board[k - 1].cards) = 0 THEN 1 ELSE 0])

\* Mutant: the foundations do not count.
score_state_graph_no_foundation(g) == 3 * RevealedCount(g) + 5 * EmptyColumns(g)

\* Mutant: the breadth engine scoring with the depth engine's weights.
score_state_graph_light(g) == 10 * FoundationCount(g) + 2 * RevealedCount(g) + 3 * EmptyColumns(g)

\* best_move_graph.score_state
score_state_graph(g) == 10 * FoundationCount(g) + 3 * RevealedCount(g) + 5 * EmptyColumns(g)

\* Mutant: a face-up column card weighs more than a foundation card.
score_state_tree_faceup_heavy(g) ==
    10 * FoundationCount(g) + 12 * RevealedCount(g) + 3 * EmptyColumns(g)

\* best_move_tree.score_state
score_state_tree(g) == 10 * FoundationCount(g) + 2 * RevealedCount(g) + 3 * EmptyColumns(g)

\* str(rank), with the names Card.__repr__ gives to 1, 11, 12 and 13.
RankStr == <<"A", "2", "3", "4", "5", "6", "7", "8", "9", "10", "J", "Q", "K">>

\* Card.__repr__: rank name, then suit symbol.
Card_repr(card) == IF card = None THEN <<"None">> ELSE <<RankStr[card.rank], card.suit>>

\* Move.__str__ (both engines format alike), as the list of the string's parts.
Move_str(m) ==
    CASE m.move_type = "board_to_board" ->
            <<"Move: ", Card_repr(m.card), " from column ", m.from, " to column ", m.to>>
      [] m.move_type = "board_to_foundation" ->
            <<"Move: ", Card_repr(m.card), " from column ", m.from, " to the foundation">>
      [] m.move_type = "waste_to_board" ->
            <<"Move: ", Card_repr(m.card), " from waste to column ", m.column>>
      [] m.move_type = "waste_to_foundation" ->
            <<"Move: ", Card_repr(m.card), " from waste to the foundation">>
      [] m.move_type = "draw_stock" -> <<"Move: draw a card from the stock">>
      [] m.move_type = "reset_stock" -> <<"Move: reset the stock">>
      [] OTHER -> <<"Move: ", m.move_type>>

\* best_move_tree.illegal_color_repetition_move
illegal_color_repetition_move(g, move) ==
    IF move.move_type # "board_to_board" THEN FALSE
    ELSE LET pile_src == g.Board[move.from]
             pile_dst == g.Board[move.to]
         IN IF Len(pile_src.cards) = 0 THEN FALSE
            ELSE IF Len(pile_dst.cards) = 0 THEN FALSE
            ELSE IF Len(pile_src.cards) < 2 THEN FALSE
            ELSE LET moving_card == BoardPile_peek(pile_src)
                     dst_card == BoardPile_peek(pile_dst)
                     prev_card == pile_src.cards[Len(pile_src.cards) - 1]
                 IN \/ is_black(moving_card) /\ is_black(prev_card) /\ is_black(dst_card)
                    \/ is_red(moving_card) /\ is_red(prev_card) /\ is_red(dst_card)

---------------------------------------------------------------------------
(* The two search engines, run on a root game object *)

\* Largest max_depth searched.
MaxDepth == 3

\* best_score starts at -float("inf") in the breadth engine: below every score.
MinusInfinity == -1000000

\* best_score starts at -999999 in the depth engine.
TreeFloor == -999999

\* The heap without the objects nothing refers to any more.
Restrict(h, live) == [r \in (DOMAIN h) \cap live |-> h[r]]

Entry(state, depth, first_move) == [state |-> state, depth |-> depth, first_move |-> first_move]

QueueRefs(q) == {q[k].state : k \in 1..Len(q)}

Frame(ref, depth, first_move, moves) ==
    [game |-> ref, depth |-> depth, first_move |-> first_move, moves |-> moves, mi |-> 1]

StackRefs(st) == {st[k].game : k \in 1..Len(st)}

\* Mutant: `depth > max_depth` where the code has `depth >= max_depth`.
depth_exceeded(depth, limit) == depth > limit

\* if depth >= max_depth: continue (breadth engine) / return (depth engine)
depth_reached(depth, limit) == depth >= limit

\* Mutant: no key counts as seen.
key_never_visited(key, seen) == FALSE

\* if key in visited: continue
key_in_visited(key, seen) == key \in seen

\* Mutant: the move just applied is recorded, whatever began the path.
Primary_current(first_move, mv) == mv

\* primary = first_move if first_move else mv
Primary(first_move, mv) == IF first_move # NoMove THEN first_move ELSE mv

(* find_best_move_graph *)

\* Mutant: a visited set that outlives the call.
GraphStart_keep_visited ==
    /\ pc = "start"
    /\ engine = "graph"
    /\ visited' = visited \cup {serialize_state_graph(heap[game])}
    /\ queue' = <<Entry(game, 0, NoMove)>>
    /\ best_move' = NoMove
    /\ best_score' = MinusInfinity
    /\ pc' = "loop"
    /\ UNCHANGED <<playVars, foundVars, call, recycleVars, probe, max_depth, current, legal,
                   mi, stack, result>>

GraphStart ==
    /\ pc = "start"
    /\ engine = "graph"
    /\ visited' = {serialize_state_graph(heap[game])}
    /\ queue' = <<Entry(game, 0, NoMove)>>
    /\ best_move' = NoMove
    /\ best_score' = MinusInfinity
    /\ pc' = "loop"
    /\ UNCHANGED <<playVars, foundVars, call, recycleVars, probe, max_depth, current, legal,
                   mi, stack, result>>

\* current, depth, first_move = queue.popleft(); the two `continue`s; legal.
GraphDequeue ==
    /\ pc = "loop"
    /\ engine = "graph"
    /\ queue # <<>>
    /\ \E moves \in {get_legal_moves_graph(heap[Head(queue).state])} :
       LET e == Head(queue)
       IN /\ queue' = Tail(queue)
          /\ IF depth_reached(e.depth, max_depth) \/ moves = <<>>
             THEN /\ heap' = Restrict(heap, {game} \cup QueueRefs(Tail(queue)))
                  /\ UNCHANGED <<pc, current, legal, mi>>
             ELSE /\ current' = e
                  /\ legal' = moves
                  /\ mi' = 1
                  /\ pc' = "for"
                  /\ UNCHANGED heap
    /\ UNCHANGED <<game, pre, last, engine, foundVars, call, recycleVars, probe, max_depth,
                   visited, stack, best_move, best_score, result>>

\* One iteration of `for mv in legal`.
GraphTry ==
    /\ pc = "for"
    /\ engine = "graph"
    /\ \E r \in {apply_move_graph(heap, current.state, legal[mi])} :
       \E key \in {serialize_state_graph(r.heap[r.g])} :
       \E sc \in {score_state_graph(r.heap[r.g])} :
       \E fresh \in {~key_in_visited(key, visited)} :
       LET mv == legal[mi]
           primary == Primary(current.first_move, mv)
           queue1 == IF fresh THEN Append(queue, Entry(r.g, current.depth + 1, primary))
                     ELSE queue
           more == mi < Len(legal)
       IN /\ last' = mv
          /\ IF r.err # "none"
             THEN /\ pc' = "raised"
                  /\ heap' = Restrict(r.heap, {game})
                  /\ UNCHANGED <<visited, queue, best_move, best_score, mi>>
             ELSE /\ visited' = visited \cup {key}
                  /\ queue' = queue1
                  /\ IF fresh /\ sc > best_score
                     THEN best_score' = sc /\ best_move' = primary
                     ELSE UNCHANGED <<best_move, best_score>>
                  /\ mi' = mi + 1
                  /\ pc' = IF more THEN "for" ELSE "loop"
                  /\ heap' = Restrict(r.heap, {game} \cup QueueRefs(queue1)
                                              \cup (IF more THEN {current.state} ELSE {}))
    /\ UNCHANGED <<game, pre, engine, foundVars, call, recycleVars, probe, max_depth, current,
                   legal, stack, result>>

GraphFinish ==
    /\ pc = "loop"
    /\ engine = "graph"
    /\ queue = <<>>
    /\ result' = IF best_move # NoMove THEN Move_str(best_move) ELSE <<"No move found">>
    /\ pc' = "done"
    /\ UNCHANGED <<playVars, foundVars, call, recycleVars, probe, max_depth, visited, queue,
                   current, legal, mi, stack, best_move, best_score>>

(* find_best_move_tree *)

\* The frame of a call dfs(ref, depth, first_move): it returns at once at
\* max_depth, otherwise it holds the sorted legal moves.
Call(h, ref, depth, first_move) ==
    Frame(ref, depth, first_move,
          IF depth_reached(depth, max_depth) THEN <<>> ELSE dfs_moves(h[ref]))

TreeStart ==
    /\ pc = "start"
    /\ engine = "tree"
    /\ visited' = {serialize_state_tree(heap[game])}
    /\ best_move' = NoMove
    /\ best_score' = TreeFloor
    /\ stack' = <<Call(heap, game, 0, NoMove)>>
    /\ pc' = "dfs"
    /\ UNCHANGED <<playVars, foundVars, call, recycleVars, probe, max_depth, queue, current,
                   legal, mi, result>>

\* One iteration of `for move in moves` in the innermost call.
TreeTry ==
    /\ pc = "dfs"
    /\ engine = "tree"
    /\ stack # <<>>
    /\ Last(stack).mi <= Len(Last(stack).moves)
    /\ \E r \in {apply_move_tree(heap, Last(stack).game, Last(stack).moves[Last(stack).mi])} :
       LET f == Last(stack)
           move == f.moves[f.mi]
           stepped == [stack EXCEPT ![Len(stack)].mi = @ + 1]
           new_game == r.heap[r.g]
           key == serialize_state_tree(new_game)
           score == score_state_tree(new_game)
           chosen == Primary(f.first_move, move)
       IN IF illegal_color_repetition_move(heap[f.game], move)
          THEN /\ stack' = stepped
               /\ UNCHANGED <<heap, last, visited, best_move, best_score, pc>>
          ELSE /\ last' = move
               /\ IF r.err # "none"
                  THEN /\ pc' = "raised"
                       /\ heap' = Restrict(r.heap, {game})
                       /\ UNCHANGED <<stack, visited, best_move, best_score>>
                  ELSE IF key_in_visited(key, visited)
                  THEN /\ stack' = stepped
                       /\ heap' = Restrict(r.heap, {game} \cup StackRefs(stack))
                       /\ UNCHANGED <<visited, best_move, best_score, pc>>
                  ELSE /\ visited' = visited \cup {key}
                       /\ IF score > best_score
                          THEN best_score' = score /\ best_move' = chosen
                          ELSE UNCHANGED <<best_move, best_score>>
                       /\ stack' = Append(stepped, Call(r.heap, r.g, f.depth + 1, chosen))
                       /\ heap' = r.heap
                       /\ UNCHANGED pc
    /\ UNCHANGED <<game, pre, engine, foundVars, call, recycleVars, probe, max_depth, queue,
                   current, legal, mi, result>>

\* Mutant: the returning call's state is unmarked, as in a search that
\* keeps only the states of the current path.
TreeReturn_unmark ==
    /\ pc = "dfs"
    /\ engine = "tree"
    /\ stack # <<>>
    /\ Last(stack).mi > Len(Last(stack).moves)
    /\ stack' = Front(stack)
    /\ visited' = visited \ {serialize_state_tree(heap[Last(stack).game])}
    /\ heap' = Restrict(heap, {game} \cup StackRefs(Front(stack)))
    /\ UNCHANGED <<game, pre, last, engine, foundVars, call, recycleVars, probe, pc, max_depth,
                   queue, current, legal, mi, best_move, best_score, result>>

\* The innermost call has run out of moves (or was at max_depth) and returns.
TreeReturn ==
    /\ pc = "dfs"
    /\ engine = "tree"
    /\ stack # <<>>
    /\ Last(stack).mi > Len(Last(stack).moves)
    /\ stack' = Front(stack)
    /\ heap' = Restrict(heap, {game} \cup StackRefs(Front(stack)))
    /\ UNCHANGED <<game, pre, last, engine, foundVars, call, recycleVars, probe, pc, max_depth,
                   visited, queue, current, legal, mi, best_move, best_score, result>>

TreeFinish ==
    /\ pc = "dfs"
    /\ engine = "tree"
    /\ stack = <<>>
    /\ result' = IF best_move = NoMove THEN <<"None">> ELSE Move_str(best_move)
    /\ pc' = "done"
    /\ UNCHANGED <<playVars, foundVars, call, recycleVars, probe, max_depth, visited, queue,
                   current, legal, mi, stack, best_move, best_score>>

(* The states a hint is asked in *)

\* Deals searched.
SearchSeeds == {<<1, 1>>, <<5, 2>>, <<5, 4>>, <<7, 7>>}

\* Plies played before the hint is asked.
MaxPlayed == 12

\* The player's move: a foundation move if there is one, else the waste top
\* onto a column, else the stock, else a column top onto another column.
PlayerMove(g) ==
    LET moves == get_legal_moves_tree(g)
        pick(types) == SelectSeq(moves, LAMBDA m : m.move_type \in types)
        f == pick({"waste_to_foundation", "board_to_foundation"})
        w == pick({"waste_to_board"})
        d == pick(StockTypes)
        b == pick({"board_to_board"})
    IN IF f # <<>> THEN f[1]
       ELSE IF w # <<>> THEN w[1]
       ELSE IF d # <<>> THEN d[1]
       ELSE IF b # <<>> THEN b[1]
       ELSE NoMove

RECURSIVE Played(_, _)
Played(g, n) ==
    IF n = 0 \/ PlayerMove(g) = NoMove THEN g
    ELSE Played(graph_mutate(g, PlayerMove(g)).g, n - 1)

\* A shuffle after which two suits run out to their foundations while the
\* hearts stay buried under the Three dealt face-up on the last column.  In
\* the full deck a suit's King follows its Queen to the foundation; the
\* scaled diamonds and spades end at the Three.
EndgameDeck ==
    <<Card(13, "H", FALSE), Card(1, "D", FALSE), Card(1, "S", FALSE),
      Card(1, "H", FALSE), Card(2, "H", FALSE), Card(3, "H", FALSE),
      Card(3, "S", FALSE), Card(2, "S", FALSE), Card(3, "D", FALSE), Card(2, "D", FALSE)>>

SearchDecks == {Shuffle(BaseDeck, sd[1], sd[2]) : sd \in SearchSeeds} \cup {EndgameDeck}

SearchRoots == {Played(deal_cards(deck), n) : deck \in SearchDecks, n \in 0..MaxPlayed}

InitSearch ==
    /\ \E root \in SearchRoots :
          /\ heap = <<root>>
          /\ pre = root
    /\ game = 1
    /\ last = NoMove
    /\ engine \in Engines
    /\ pc = "start"
    /\ max_depth \in 0..MaxDepth
    /\ visited = {}
    /\ queue = <<>>
    /\ current = NoEntry
    /\ legal = <<>>
    /\ mi = 0
    /\ stack = <<>>
    /\ best_move = NoMove
    /\ best_score = 0
    /\ result = <<>>
    /\ FoundIdle
    /\ RecycleIdle
    /\ ProbeIdle
    /\ CallIdle

NextSearch ==
    \/ GraphStart
    \/ GraphDequeue
    \/ GraphTry
    \/ GraphFinish
    \/ TreeStart
    \/ TreeTry
    \/ TreeReturn
    \/ TreeFinish

SpecSearch == InitSearch /\ [][NextSearch]_vars

---------------------------------------------------------------------------
(* Frame of apply_move and of the two searches *)

\* Every game object that exists before and after a step of a search holds
\* the same piles, cards and revealed flags.
ObjectsKept == \A r \in (DOMAIN heap) \cap (DOMAIN heap') : heap'[r] = heap[r]

\* C8: apply_move never mutates the state it is given, and neither search
\* changes the root it was called on: through every step of every run each
\* existing game object keeps its card sequences and revealed flags, and the
\* root equals the state the search was called with.
C8_InputNeverMutated == [](heap[game] = pre) /\ [][ObjectsKept]_vars

\* A finished search that applied moves of a kind that also flips a card
\* (a column move, a stock reset) and returned a move, root intact.
C8_Witness ==
    /\ pc = "done"
    /\ best_move # NoMove
    /\ last.move_type \in {"board_to_board", "board_to_foundation", "reset_stock"}
    /\ Cardinality(visited) > 3
    /\ heap = <<pre>>

---------------------------------------------------------------------------
(* One pass through the stock: draws until it is empty, then the reset *)

\* Positions of play in which a pass starts: the waste is empty and the stock
\* is not.
PassRoots ==
    {g \in {Played(deal_cards(d), n) : d \in Decks, n \in 0..MaxPlayed} :
        g.waste.cards = <<>> /\ g.stock.cards # <<>>}

\* `pre` holds the position the pass started from.
InitPass ==
    /\ \E root \in PassRoots :
          /\ heap = <<root>>
          /\ pre = root
    /\ game = 1
    /\ last = NoMove
    /\ engine \in Engines
    /\ FoundIdle
    /\ RecycleIdle
    /\ ProbeIdle
    /\ CallIdle
    /\ SearchIdle

\* The engine applies a stock move it emits; the object returned becomes the
\* current game.
PassStep(mv) ==
    LET r == apply_move(engine, heap, game, mv)
    IN /\ r.err = "none"
       /\ heap' = <<r.heap[r.g]>>
       /\ last' = mv
       /\ UNCHANGED <<game, pre, engine, foundVars, call, recycleVars, probe, searchVars>>

PassDraw == \E mv \in Emitted(engine, "draw_stock") : PassStep(mv)

PassReset == \E mv \in Emitted(engine, "reset_stock") : PassStep(mv)

NextPass ==
    \/ PassDraw
    \/ PassReset

SpecPass == InitPass /\ [][NextPass]_vars

\* C11: after |S| draws from a position with empty waste and stock S, the
\* reset gives back the stock sequence S, all face-down, with the waste empty,
\* and the position has the canonical key it started with (in both engines'
\* keys).
C11_ResetRestoresStock ==
    last.move_type = "reset_stock" =>
        /\ Cur.stock.cards = pre.stock.cards
        /\ Cur.waste.cards = <<>>
        /\ \A k \in 1..Len(Cur.stock.cards) : ~Cur.stock.cards[k].revealed
        /\ serialize_state_graph(Cur) = serialize_state_graph(pre)
        /\ serialize_state_tree(Cur) = serialize_state_tree(pre)

\* A reset has just been applied after a pass through a stock of several cards.
C11_Witness ==
    /\ last.move_type = "reset_stock"
    /\ Len(pre.stock.cards) >= 3
    /\ Cur.stock.cards = pre.stock.cards

---------------------------------------------------------------------------
(* main.py: list_all_legal_moves, apply_move, attempt_move, the stock click *)

\* list_all_legal_moves: a move is (name, card); the column digits of the
\* names w->t{i}, t{i}->f and t{i}->t{j} are kept in `from` and `to`.
list_all_legal_moves(g) ==
    LET w == WastePile_peek(g.waste)
        top(k) == BoardPile_peek(g.Board[k - 1])
        wf == IF w # None /\ FoundationPile_can_add(g.foundations[w.suit], w)
              THEN <<Move("w->f", NoCol, NoCol, NoCol, w)>>
              ELSE <<>>
        wt == IF w # None
              THEN SelectSeq([k \in 1..BOARD_COLUMNS |-> Move("w->t", NoCol, k - 1, NoCol, w)],
                             LAMBDA m : BoardPile_can_add(g.Board[m.to], w))
              ELSE <<>>
        tf == Flatten([k \in 1..BOARD_COLUMNS |->
                  IF top(k) # None
                     /\ FoundationPile_can_add(g.foundations[top(k).suit], top(k))
                  THEN <<Move("t->f", k - 1, NoCol, NoCol, top(k))>>
                  ELSE <<>>])
        tt == Flatten([k \in 1..BOARD_COLUMNS |->
                  IF top(k) # None
                  THEN SelectSeq([j \in 1..BOARD_COLUMNS |->
                                     Move("t->t", k - 1, j - 1, NoCol, top(k))],
                                 LAMBDA m : m.from # m.to
                                            /\ BoardPile_can_add(g.Board[m.to], top(k)))
                  ELSE <<>>])
    IN <<Move("draw", NoCol, NoCol, NoCol, None)>> \o wf \o wt \o tf \o tt

\* main.apply_move: works on the game object itself; the card of the move is
\* not used, the card popped is.
main_apply_move(g, move) ==
    LET name == move.move_type
    IN
    IF name = "draw" THEN
        LET d == StockPile_draw(g.stock)
        IN IF d.ret # None
           THEN Ok([g EXCEPT !.stock = d.pile, !.waste = WastePile_add(@, d.ret).pile])
           ELSE Ok(g)
    ELSE IF name = "w->f" THEN
        LET p == WastePile_pop(g.waste)
            c == p.ret
            g1 == [g EXCEPT !.waste = p.pile]
        IN IF c = None THEN Raise(g1)
           ELSE Ok([g1 EXCEPT !.foundations[c.suit] = FoundationPile_add(@, c).pile])
    ELSE IF name = "w->t" THEN
        LET p == WastePile_pop(g.waste)
            c == p.ret
            g1 == [g EXCEPT !.waste = p.pile]
        IN IF BoardPile_add_raises(g1.Board[move.to], c) THEN Raise(g1)
           ELSE Ok([g1 EXCEPT !.Board[move.to] = BoardPile_add(@, c).pile])
    ELSE IF name = "t->f" THEN
        LET p == BoardPile_pop(g.Board[move.from])
            c == p.ret
            g1 == [g EXCEPT !.Board[move.from] = p.pile]
        IN IF c = None THEN Raise(g1)
           ELSE Ok([g1 EXCEPT !.foundations[c.suit] = FoundationPile_add(@, c).pile])
    ELSE IF name = "t->t" THEN
        LET p == BoardPile_pop(g.Board[move.from])
            c == p.ret
            g1 == [g EXCEPT !.Board[move.from] = p.pile]
        IN IF BoardPile_add_raises(g1.Board[move.to], c) THEN Raise(g1)
           ELSE Ok([g1 EXCEPT !.Board[move.to] = BoardPile_add(@, c).pile])
    ELSE Ok(g)

\* _is_valid_Board_sequence(pile, start_idx), start_idx counted from 0.
is_valid_Board_sequence(pile, start_idx) ==
    LET n == Len(pile.cards)
    IN IF start_idx < 0 \/ start_idx >= n THEN FALSE
       ELSE /\ \A i \in start_idx..(n - 1) : pile.cards[i + 1].revealed
            /\ \A i \in start_idx..(n - 2) :
                  /\ pile.cards[i + 1].rank = pile.cards[i + 2].rank + 1
                  /\ is_red(pile.cards[i + 1]) # is_red(pile.cards[i + 2])

\* attempt_move: foundation targets are looked up in this order.
suit_order == <<"H", "D", "C", "S">>

Selection(type, index, card_index) == [type |-> type, index |-> index, card_index |-> card_index]

Target(type, index) == [type |-> type, index |-> index]

\* Mutant: only the first card of the run is added.
BoardPile_add_run_first(pile, run) ==
    IF run = <<>> THEN pile
    ELSE BoardPile_add(pile, [Head(run) EXCEPT !.revealed = TRUE]).pile

\* for c in run: c.revealed = True; game.Board[dst_idx].add(c)
RECURSIVE BoardPile_add_run(_, _)
BoardPile_add_run(pile, run) ==
    IF run = <<>> THEN pile
    ELSE BoardPile_add_run(BoardPile_add(pile, [Head(run) EXCEPT !.revealed = TRUE]).pile,
                           Tail(run))

\* `if size() > 0: cards[-1].revealed = True`
reveal_if_any(pile) == IF Len(pile.cards) > 0 THEN BoardPile_reveal_top(pile) ELSE pile

\* attempt_move(game, selected, target): the game object after the call and
\* the flag returned.
attempt_move(g, selected, target) ==
    LET refused == [g |-> g, ret |-> FALSE]
        done(g1) == [g |-> g1, ret |-> TRUE]
        src_idx == selected.index
        dst_idx == target.index
    IN
    IF selected.type = "waste" /\ Len(g.waste.cards) > 0 THEN
        LET card == WastePile_peek(g.waste)
            p == WastePile_pop(g.waste)
        IN IF target.type = "foundation"
              /\ FoundationPile_can_add(g.foundations[suit_order[dst_idx + 1]], card)
           THEN done([g EXCEPT !.waste = p.pile,
                               !.foundations[suit_order[dst_idx + 1]] =
                                   FoundationPile_add(@, p.ret).pile])
           ELSE IF target.type = "Board" /\ BoardPile_can_add(g.Board[dst_idx], card)
           THEN done([g EXCEPT !.waste = p.pile,
                               !.Board[dst_idx] = BoardPile_add(@, p.ret).pile])
           ELSE refused
    ELSE IF selected.type = "Board" /\ Len(g.Board[src_idx].cards) > 0 THEN
        LET src == g.Board[src_idx]
            n == Len(src.cards)
            src_card_index == selected.card_index
        IN IF ~is_valid_Board_sequence(src, src_card_index) THEN refused
           ELSE LET moving_card == src.cards[src_card_index + 1]
                IN IF /\ target.type = "foundation"
                      /\ src_card_index = n - 1
                      /\ FoundationPile_can_add(g.foundations[suit_order[dst_idx + 1]],
                                                moving_card)
                   THEN LET p == BoardPile_pop(src)
                        IN done([g EXCEPT !.Board[src_idx] = reveal_if_any(p.pile),
                                          !.foundations[suit_order[dst_idx + 1]] =
                                              FoundationPile_add(@, p.ret).pile])
                   ELSE IF /\ target.type = "Board"
                           /\ src_idx # dst_idx
                           /\ BoardPile_can_add(g.Board[dst_idx], moving_card)
                   THEN LET run == SubSeq(src.cards, src_card_index + 1, n)
                            rest == [src EXCEPT !.cards = SubSeq(@, 1, src_card_index)]
                        IN done([g EXCEPT !.Board[src_idx] = reveal_if_any(rest),
                                          !.Board[dst_idx] = BoardPile_add_run(@, run)])
                   ELSE refused
    ELSE refused

\* The stock click of the main loop: draw, or recycle the waste when the
\* stock is empty.
stock_click(g) ==
    LET d == StockPile_draw(g.stock)
    IN IF d.ret # None
       THEN [g EXCEPT !.stock = d.pile, !.waste = WastePile_add(@, d.ret).pile]
       ELSE IF Len(g.waste.cards) > 0
       THEN LET r == StockPile_recycle_from(g.stock, g.waste)
            IN [g EXCEPT !.stock = r.stock, !.waste = r.waste]
       ELSE g

---------------------------------------------------------------------------
(* The game played through main.py, on the game object itself *)

\* Deals played at the table.
TableSeeds == {<<1, 1>>, <<5, 2>>, <<7, 7>>, <<7, 11>>}

TableDecks == {Shuffle(BaseDeck, sd[1], sd[2]) : sd \in TableSeeds}

InitTable ==
    /\ \E deck \in TableDecks :
          /\ heap = <<deal_cards(deck)>>
          /\ pre = deal_cards(deck)
    /\ game = 1
    /\ last = NoMove
    /\ engine = "none"
    /\ FoundIdle
    /\ RecycleIdle
    /\ ProbeIdle
    /\ CallIdle
    /\ SearchIdle

\* The game object becomes g1 through operation op; `pre` keeps the value it
\* had before, `last` what was done.
TableStep(op, mv, g1) ==
    /\ heap' = <<g1>>
    /\ pre' = Cur
    /\ last' = mv
    /\ engine' = op
    /\ UNCHANGED <<game, foundVars, call, recycleVars, probe, searchVars>>

\* apply_move(game, move) for a move of list_all_legal_moves(game).
MainApply ==
    \E mv \in Range(list_all_legal_moves(Cur)) :
        LET r == main_apply_move(Cur, mv)
        IN /\ r.err = "none"
           /\ TableStep("main.apply_move", mv, r.g)

\* A click on the stock.
StockClick ==
    TableStep("main.click", Move("stock", NoCol, NoCol, NoCol, None), stock_click(Cur))

\* What a first click can select: the waste when it has a card, or a face-up
\* card of a column.
Selections(g) ==
    (IF Len(g.waste.cards) > 0 THEN {Selection("waste", NoCol, NoCol)} ELSE {})
    \cup UNION {{Selection("Board", i, k) :
                    k \in {k \in 0..(Len(g.Board[i].cards) - 1) :
                             g.Board[i].cards[k + 1].revealed}} : i \in Columns}

\* What the second click can hit that attempt_move acts on.
Targets ==
    {Target("foundation", i) : i \in 0..(Len(suit_order) - 1)}
    \cup {Target("Board", i) : i \in Columns}

\* A card or the waste is selected, then a pile is clicked and attempt_move
\* moves cards.
Attempt ==
    \E selected \in Selections(Cur) : \E target \in Targets :
        LET r == attempt_move(Cur, selected, target)
            card == IF selected.type = "waste" THEN WastePile_peek(Cur.waste)
                    ELSE Cur.Board[selected.index].cards[selected.card_index + 1]
        IN /\ r.ret
           /\ TableStep("main.attempt_move",
                        Move(target.type, selected.index, target.index,
                             selected.card_index, card),
                        r.g)

\* A card or the waste is selected, then a pile is clicked and attempt_move
\* returns False.
AttemptRefused ==
    \E selected \in Selections(Cur) : \E target \in Targets :
        \E r \in {attempt_move(Cur, selected, target)} :
           /\ ~r.ret
           /\ TableStep("main.attempt_move False",
                        Move(target.type, selected.index, target.index,
                             selected.card_index, None),
                        r.g)

NextTable ==
    \/ MainApply
    \/ StockClick
    \/ Attempt
    \/ AttemptRefused

SpecTable == InitTable /\ [][NextTable]_vars

---------------------------------------------------------------------------
(* Properties of the game played through main.py *)

\* The last operation popped the top of column last.from.
PoppedColumn ==
    \/ last.move_type \in {"board_to_foundation", "board_to_board", "t->f", "t->t"}
    \/ engine = "main.attempt_move" /\ last.from # NoCol

\* C12: after an operation that pops the top card of a column, the column is
\* empty or its new top card is face-up.
C12_PopRevealsNewTop ==
    PoppedColumn =>
        \/ Len(Cur.Board[last.from].cards) = 0
        \/ Last(Cur.Board[last.from].cards).revealed

---------------------------------------------------------------------------
(* Waste to foundation *)

\* The waste has a top card and the foundation of its suit accepts it.
WasteTopFits(g) ==
    /\ Len(g.waste.cards) > 0
    /\ FoundationPile_can_add(g.foundations[WastePile_peek(g.waste).suit],
                              WastePile_peek(g.waste))

\* C13: when the foundation of the waste top's suit accepts the waste top,
\* both generators emit waste_to_foundation; and applying that move puts the
\* former waste top on top of that foundation, takes it off the waste, and
\* leaves the stock, the other foundations and every column as they were.
C13_WasteToFoundation ==
    /\ WasteTopFits(Cur) =>
          \A e \in Engines :
              Move("waste_to_foundation", NoCol, NoCol, NoCol, WastePile_peek(Cur.waste))
                  \in Range(legal_moves(e, Cur))
    /\ last.move_type = "waste_to_foundation" =>
          LET card == Last(pre.waste.cards)
          IN /\ WasteTopFits(pre)
             /\ Cur.foundations[card.suit].cards
                    = Append(pre.foundations[card.suit].cards, card)
             /\ Cur.waste.cards = Front(pre.waste.cards)
             /\ Cur.stock = pre.stock
             /\ \A s \in SuitSet \ {card.suit} : Cur.foundations[s] = pre.foundations[s]
             /\ Cur.Board = pre.Board

\* A waste top that is not an Ace has just gone onto its foundation, with
\* cards left under it in the waste.
C13_Witness ==
    /\ last.move_type = "waste_to_foundation"
    /\ Len(pre.waste.cards) >= 2
    /\ Len(Cur.foundations[last.card.suit].cards) >= 2
    /\ Last(Cur.foundations[last.card.suit].cards) = Last(pre.waste.cards)

---------------------------------------------------------------------------
(* The piles' predicates called on piles and cards of every shape *)

\* Longest pile a predicate is called on.
MaxPileLen == 2

\* All sequences over S of length at most n.
RECURSIVE SeqsUpTo(_, _)
SeqsUpTo(S, n) ==
    IF n = 0 THEN {<<>>}
    ELSE LET shorter == SeqsUpTo(S, n - 1)
         IN shorter \cup {Append(q, x) : q \in shorter, x \in S}

\* Cards lying in the columns called on, face-up or face-down.
ColumnCards == {Card(r, s, b) : r \in {12, 13}, s \in SuitSet, b \in BOOLEAN}

ColumnPiles == {[cards |-> q] : q \in SeqsUpTo(ColumnCards, MaxPileLen)}

\* Cards offered to a column.
ColumnOffers == {Card(r, s, b) : r \in 10..13, s \in SuitSet, b \in BOOLEAN}

\* Cards lying in the foundations called on, and the cards offered to them.
FoundationCards == {Card(r, s, TRUE) : r \in 1..3, s \in {"H", "S"}}

FoundationPiles ==
    {[suit |-> s, cards |-> q] : s \in {"H", "S"}, q \in SeqsUpTo(FoundationCards, MaxPileLen)}

FoundationOffers == {Card(r, s, b) : r \in 1..4, s \in SuitSet, b \in {TRUE}}

InitCalls ==
    /\ call = NoCall
    /\ PlayIdle
    /\ FoundIdle
    /\ RecycleIdle
    /\ ProbeIdle
    /\ SearchIdle

\* A function under test is called once; the call and its result are kept.
Returned(fn, args, ret) == [fn |-> fn, args |-> args, ret |-> ret]

CallBoardCanAdd ==
    /\ call.fn = "none"
    /\ \E pile \in ColumnPiles : \E card \in ColumnOffers :
          call' = Returned("BoardPile.can_add", <<pile, card>>,
                           BoardPile_can_add(pile, card))
    /\ UNCHANGED <<playVars, foundVars, recycleVars, probe, searchVars>>

CallFoundationCanAdd ==
    /\ call.fn = "none"
    /\ \E pile \in FoundationPiles : \E card \in FoundationOffers :
          call' = Returned("FoundationPile.can_add", <<pile, card>>,
                           FoundationPile_can_add(pile, card))
    /\ UNCHANGED <<playVars, foundVars, recycleVars, probe, searchVars>>

\* The ways of re-seating the columns.
Perms == {p \in [Columns -> Columns] : \A i, j \in Columns : p[i] = p[j] => i = j}

Permute(g, p) == [g EXCEPT !.Board = [i \in Columns |-> g.Board[p[i]]]]

SetRevealed(cards, b) == [k \in 1..Len(cards) |-> [cards[k] EXCEPT !.revealed = b]]

\* The top card of the first non-empty column turned over.
FlipTop(g) ==
    LET full == {i \in Columns : g.Board[i].cards # <<>>}
    IN IF full = {} THEN g
       ELSE LET i == CHOOSE x \in full : \A y \in full : x <= y
                n == Len(g.Board[i].cards)
            IN [g EXCEPT !.Board[i].cards[n].revealed = ~@]

\* The stock cut: its bottom card put on its top.
CutStock(g) ==
    IF g.stock.cards = <<>> THEN g
    ELSE [g EXCEPT !.stock.cards = Tail(@) \o <<Head(@)>>]

\* States to key and score: positions of play, the same with the columns
\* re-seated, with a card turned over, with stock, waste or foundation cards
\* face-up or face-down, with the stock cut, and with stock and waste
\* exchanged.
Variants(g) ==
    {Permute(g, p) : p \in Perms}
    \cup {FlipTop(g), CutStock(g),
          [g EXCEPT !.stock.cards = SetRevealed(@, TRUE), !.waste.cards = SetRevealed(@, FALSE)],
          [g EXCEPT !.foundations = [su \in SuitSet |-> [@[su] EXCEPT !.cards = SetRevealed(@, FALSE)]]],
          [g EXCEPT !.stock.cards = g.waste.cards, !.waste.cards = g.stock.cards]}

KeyedPlies == {0, 5, 10}

KeyedStates ==
    UNION {Variants(Played(deal_cards(deck), n)) :
              deck \in {Shuffle(BaseDeck, 7, 7), EndgameDeck}, n \in KeyedPlies}

\* Both engines' serialize_state on each of two states.
CallSerialize ==
    /\ call.fn = "none"
    /\ \E s1 \in KeyedStates : \E s2 \in KeyedStates :
          call' = Returned("serialize_state", <<s1, s2>>,
                           <<serialize_state_graph(s1), serialize_state_graph(s2),
                             serialize_state_tree(s1), serialize_state_tree(s2)>>)
    /\ UNCHANGED <<playVars, foundVars, recycleVars, probe, searchVars>>

\* Both engines' score_state on a state.
CallScore ==
    /\ call.fn = "none"
    /\ \E g \in KeyedStates :
          call' = Returned("score_state", <<g>>, <<score_state_graph(g), score_state_tree(g)>>)
    /\ UNCHANGED <<playVars, foundVars, recycleVars, probe, searchVars>>

\* The card object after add(card): the object appended when add succeeded,
\* the object passed otherwise.
CardAfter(r, card) == IF r.ret THEN Last(r.pile.cards) ELSE card

CallBoardAdd ==
    /\ call.fn = "none"
    /\ \E pile \in ColumnPiles : \E card \in ColumnOffers :
       \E r \in {BoardPile_add(pile, card)} :
          call' = Returned("BoardPile.add", <<pile, card>>, <<r.pile, r.ret, CardAfter(r, card)>>)
    /\ UNCHANGED <<playVars, foundVars, recycleVars, probe, searchVars>>

CallFoundationAdd ==
    /\ call.fn = "none"
    /\ \E pile \in FoundationPiles : \E offer \in FoundationOffers : \E b \in BOOLEAN :
       \E r \in {FoundationPile_add(pile, [offer EXCEPT !.revealed = b])} :
          call' = Returned("FoundationPile.add", <<pile, [offer EXCEPT !.revealed = b]>>,
                           <<r.pile, r.ret, CardAfter(r, [offer EXCEPT !.revealed = b])>>)
    /\ UNCHANGED <<playVars, foundVars, recycleVars, probe, searchVars>>

NextCalls ==
    \/ CallBoardCanAdd
    \/ CallFoundationCanAdd
    \/ CallBoardAdd
    \/ CallFoundationAdd
    \/ CallSerialize
    \/ CallScore

SpecCalls == InitCalls /\ [][NextCalls]_vars

---------------------------------------------------------------------------
(* score_state and get_legal_moves called on every arrangement of a small deck *)

\* A deck that can be played out: two suits of two colours, Ace and Two.
LayoutIds == {<<r, s>> : r \in 1..2, s \in {"H", "S"}}

\* Where a card lies: a column, its suit's foundation, the stock or the waste.
AtFoundation == BOARD_COLUMNS

AtStock == BOARD_COLUMNS + 1

AtWaste == BOARD_COLUMNS + 2

Places == Columns \cup {AtFoundation, AtStock, AtWaste}

\* The cards in some order.
Orders ==
    {q \in [1..Cardinality(LayoutIds) -> LayoutIds] : \A a, b \in DOMAIN q : q[a] = q[b] => a = b}

\* The game whose piles hold the cards of `order` in that order, each card
\* in the pile loc names; column i shows only its top card when deep[i],
\* every card otherwise.
Layout(order, loc, deep) ==
    LET at(place) == SelectSeq(order, LAMBDA id : loc[id] = place)
        faced(ids, b) == [k \in 1..Len(ids) |-> Card(ids[k][1], ids[k][2], b)]
        column(i) ==
            LET ids == at(i)
            IN [k \in 1..Len(ids) |->
                   Card(ids[k][1], ids[k][2], (~deep[i]) \/ k = Len(ids))]
    IN [stock |-> [cards |-> faced(at(AtStock), FALSE)],
        waste |-> [cards |-> faced(at(AtWaste), TRUE)],
        foundations |->
            [su \in SuitSet |->
                [suit |-> su,
                 cards |-> faced(SelectSeq(at(AtFoundation), LAMBDA id : id[2] = su), TRUE)]],
        Board |-> [i \in Columns |-> [cards |-> column(i)]]]

\* The invariants of the piles: a foundation rises by one from the Ace, a
\* column has a face-up top and a face-up part that descends by one in
\* alternating colours.  (Stock cards lie face-down, waste cards face-up and
\* no card lies twice by construction.)
WellFormed(g) ==
    /\ \A su \in SuitSet : \A k \in 1..Len(g.foundations[su].cards) :
          g.foundations[su].cards[k].rank = k
    /\ \A i \in Columns : ColumnOrdered(g.Board[i].cards)

\* The ways to turn the columns' cards: a column of less than two cards has
\* one.
Depths(loc) ==
    {deep \in [Columns -> BOOLEAN] :
        \A i \in Columns : deep[i] => Cardinality({id \in LayoutIds : loc[id] = i}) >= 2}

Layouts ==
    UNION {{g \in {Layout(order, loc, deep) : order \in Orders, deep \in Depths(loc)} :
                WellFormed(g)} : loc \in [LayoutIds -> Places]}

\* All cards lie on the foundations.
IsWon(g) ==
    /\ g.stock.cards = <<>>
    /\ g.waste.cards = <<>>
    /\ \A i \in Columns : g.Board[i].cards = <<>>

WonLayout ==
    CHOOSE g \in {Layout(order, [id \in LayoutIds |-> AtFoundation], [i \in Columns |-> FALSE]) :
                     order \in Orders} : WellFormed(g)

CallLayout ==
    /\ call.fn = "none"
    /\ \E g \in Layouts :
          call' = Returned("score_state, get_legal_moves", <<g>>,
                           <<score_state_graph(g), score_state_tree(g),
                             get_legal_moves_graph(g), get_legal_moves_tree(g)>>)
    /\ UNCHANGED <<playVars, foundVars, recycleVars, probe, searchVars>>

SpecLayouts == InitCalls /\ [][CallLayout]_vars

\* The positions of the face-up cards of a card sequence.
FaceUp(cards) == {k \in 1..Len(cards) : cards[k].revealed}

\* The column of the fixture: King of Spades face-down under Queen of Hearts.
KingQueen == [cards |-> <<Card(13, "S", FALSE), Card(12, "H", TRUE)>>]

\* C14: BoardPile.can_add(card) is true iff the pile is empty and the card is
\* a King, or the pile has a face-up card and the card is one rank below the
\* topmost face-up card t and of the other color; the column [KS down, QH up]
\* accepts exactly the black Jacks.
C14_BoardCanAdd ==
    call.fn = "BoardPile.can_add" =>
        LET cards == call.args[1].cards
            card == call.args[2]
        IN /\ call.ret <=>
                 \/ cards = <<>> /\ card.rank = 13
                 \/ /\ cards # <<>>
                    /\ FaceUp(cards) # {}
                    /\ \E k \in FaceUp(cards) :
                          /\ \A m \in FaceUp(cards) : m <= k
                          /\ card.rank = cards[k].rank - 1
                          /\ (card.suit \in {"H", "D"}) # (cards[k].suit \in {"H", "D"})
           /\ call.args[1] = KingQueen =>
                 (call.ret <=> (card.rank = 11 /\ card.suit \in {"S", "C"}))

\* The fixture column was offered the Jack of Clubs and took it.
C14_Witness ==
    /\ call.fn = "BoardPile.can_add"
    /\ call.args[1] = KingQueen
    /\ call.args[2] = Card(11, "C", FALSE)
    /\ call.ret

\* C15: FoundationPile.can_add(card) is true iff the card has the pile's suit
\* and is the Ace on an empty pile or one rank above the top of a non-empty
\* pile.
C15_FoundationCanAdd ==
    call.fn = "FoundationPile.can_add" =>
        LET pile == call.args[1]
            card == call.args[2]
        IN call.ret <=>
              /\ card.suit = pile.suit
              /\ \/ pile.cards = <<>> /\ card.rank = 1
                 \/ pile.cards # <<>> /\ card.rank = Last(pile.cards).rank + 1

\* The Hearts pile holding Ace and Two was offered the Three of Hearts and
\* took it.
C15_Witness ==
    /\ call.fn = "FoundationPile.can_add"
    /\ call.args[1] = [suit |-> "H", cards |-> <<Card(1, "H", TRUE), Card(2, "H", TRUE)>>]
    /\ call.args[2] = Card(3, "H", TRUE)
    /\ call.ret

---------------------------------------------------------------------------
(* The breadth-first engine: frontier, visited keys, depth bound *)

\* The canonical key of the state a frontier entry holds.
EntryKey(h, e) == serialize_state_graph(h[e.state])

\* This step put one entry at the end of the frontier.
Enqueues == Len(queue') = Len(queue) + 1

\* C16: in the breadth-first engine the visited set only grows, an entry is
\* put on the frontier only with a key that was not visited before and is
\* visited from then on, and the entries on the frontier have visited,
\* pairwise different keys.
C16_VisitedAndFrontier ==
    /\ [](engine = "graph" =>
            /\ \A k \in 1..Len(queue) : EntryKey(heap, queue[k]) \in visited
            /\ \A k, m \in 1..Len(queue) :
                  k # m => EntryKey(heap, queue[k]) # EntryKey(heap, queue[m]))
    /\ [][engine = "graph" =>
            /\ visited \subseteq visited'
            /\ Enqueues =>
                  /\ EntryKey(heap', Last(queue')) \notin visited
                  /\ EntryKey(heap', Last(queue')) \in visited']_vars

\* Several states wait on the frontier and the move about to be tried leads
\* to a key already visited.
C16_Witness ==
    /\ engine = "graph"
    /\ pc = "for"
    /\ Len(queue) >= 3
    /\ serialize_state_graph(graph_mutate(heap[current.state], legal[mi]).g) \in visited


\* The search is a sequential loop: a step that can be taken is taken.
SpecSearchFair == InitSearch /\ [][NextSearch]_vars /\ WF_vars(NextSearch)

\* C17: the breadth-first search ends with an empty frontier, a state is
\* expanded only at a depth below max_depth, and every entry put on the
\* frontier (hence every state scored) has depth at most max_depth.
C17_BreadthTerminatesWithinDepth ==
    /\ (engine = "graph") ~> (pc = "done" /\ queue = <<>>)
    /\ [](engine = "graph" =>
            /\ pc = "for" => current.depth < max_depth
            /\ \A k \in 1..Len(queue) : queue[k].depth <= max_depth)

\* The search has ended after putting states of depth max_depth on the
\* frontier and discarding them unexpanded.
C17_Witness ==
    /\ engine = "graph"
    /\ pc = "done"
    /\ queue = <<>>
    /\ max_depth >= 2
    /\ last # NoMove
    /\ Cardinality(visited) > max_depth + 1

\* The states one generator-emitted move away from game value g.
Successors(g) == {graph_mutate(g, mv).g : mv \in Range(get_legal_moves_graph(g))}

\* The states at the end of the paths of exactly n generator-emitted moves
\* from game value g.
RECURSIVE PathFrom(_, _)
PathFrom(g, n) == IF n = 0 THEN {g} ELSE UNION {PathFrom(s, n - 1) : s \in Successors(g)}

\* mv is a move of the root and the state of entry e ends a path of e.depth
\* moves that begins with it.
BeginsPath(h, mv, e) ==
    /\ mv \in Range(get_legal_moves_graph(pre))
    /\ h[e.state] \in PathFrom(graph_mutate(pre, mv).g, e.depth - 1)

\* The step discovers a state: it scores it and puts it on the frontier.
Discovers == engine = "graph" /\ pc = "for" /\ Enqueues

DiscoveredScore == score_state_graph(heap'[Last(queue').state])

\* C18: in the breadth-first search best_score never decreases; best_move and
\* best_score change only in a step that discovers a state scoring strictly
\* more than best_score, and become that score and the first move of that
\* state's path, so an equal score leaves the earlier move in place; the
\* root entry carries no move and every deeper frontier entry carries the
\* root move that began its path, copied from its parent; the move held as
\* best begins a path of at most max_depth moves to a state with best_score,
\* and it is the move returned.
C18_BestIsFirstMoveOfBestPath ==
    /\ [][engine = "graph" /\ pc # "start" =>
            /\ best_score' >= best_score
            /\ (best_move' # best_move \/ best_score' # best_score) =>
                  /\ Discovers
                  /\ DiscoveredScore > best_score
            /\ Discovers /\ DiscoveredScore > best_score =>
                  /\ best_score' = DiscoveredScore
                  /\ best_move' = Last(queue').first_move
            /\ Discovers =>
                  Last(queue').first_move =
                      IF current.depth = 0 THEN legal[mi] ELSE current.first_move]_vars
    /\ [](engine = "graph" /\ pc # "start" =>
            /\ \A k \in 1..Len(queue) :
                  IF queue[k].depth = 0 THEN queue[k].first_move = NoMove
                  ELSE BeginsPath(heap, queue[k].first_move, queue[k])
            /\ pc = "for" /\ current.depth >= 1 =>
                  BeginsPath(heap, current.first_move, current)
            /\ best_move # NoMove =>
                  /\ best_move \in Range(get_legal_moves_graph(pre))
                  /\ \E d \in 1..max_depth :
                        \E g \in PathFrom(graph_mutate(pre, best_move).g, d - 1) :
                            score_state_graph(g) = best_score
            /\ pc = "done" =>
                  result = IF best_move = NoMove THEN <<"No move found">>
                           ELSE Move_str(best_move))

\* A state found two or more moves deep scores exactly best_score and came by
\* another root move than the one held as best: the earlier discovery stays.
C18_Witness ==
    /\ engine = "graph"
    /\ pc \in {"for", "loop"}
    /\ queue # <<>>
    /\ Last(queue).depth >= 2
    /\ score_state_graph(heap[Last(queue).state]) = best_score
    /\ best_move # NoMove
    /\ Last(queue).first_move # best_move

\* The states reachable from game value g by a path of lo..hi generator moves.
ReachWithin(g, lo, hi) == UNION {PathFrom(g, n) : n \in lo..hi}

MaxOf(S, floor) == IF S = {} THEN floor ELSE CHOOSE x \in S : \A y \in S : y <= x

\* The states reachable by one to n generator moves that are not the root
\* again under the canonical key.
NonRootWithin(g, n) ==
    {s \in ReachWithin(g, 1, n) : serialize_state_graph(s) # serialize_state_graph(g)}

TreeSuccessors(g) == {tree_mutate(g, mv).g : mv \in Range(get_legal_moves_tree(g))}

RECURSIVE TreePathFrom(_, _)
TreePathFrom(g, n) ==
    IF n = 0 THEN {g} ELSE UNION {TreePathFrom(s, n - 1) : s \in TreeSuccessors(g)}

\* The states reachable by one to n generator moves whose key is not the
\* root's.
TreeNonRootWithin(g, n) ==
    {s \in UNION {TreePathFrom(g, k) : k \in 1..n} :
        serialize_state_tree(s) # serialize_state_tree(g)}

BestWithin(g, n) == MaxOf({score_state_tree(s) : s \in TreeNonRootWithin(g, n)}, TreeFloor)

\* C20: when the depth-first search has ended, best_score is the greatest
\* score of a non-root state reachable from the root by at most max_depth
\* generator moves, and the move returned is the first move of a path of at
\* most max_depth moves to a state with that score.
C20_DepthFirstFindsBestWithinDepth ==
    engine = "tree" /\ pc = "done" =>
        /\ best_score = BestWithin(pre, max_depth)
        /\ best_move # NoMove =>
              /\ best_move \in Range(get_legal_moves_tree(pre))
              /\ result = Move_str(best_move)
              /\ \E d \in 1..max_depth :
                    \E g \in TreePathFrom(tree_mutate(pre, best_move).g, d - 1) :
                        score_state_tree(g) = best_score

\* C21: with max_depth >= 1 each engine returns, and returns its no-move
\* sentinel exactly when the root has no legal move: "No move found" from the
\* breadth engine, None from the depth engine; otherwise it returns the
\* description of a move.
C21_SentinelIffNoLegalMove ==
    pc \in {"done", "raised"} /\ max_depth >= 1 =>
        /\ pc = "done"
        /\ engine = "graph" =>
              /\ result = <<"No move found">> <=> get_legal_moves_graph(pre) = <<>>
              /\ result # <<"No move found">> => result = Move_str(best_move)
        /\ engine = "tree" =>
              /\ result = <<"None">> <=> get_legal_moves_tree(pre) = <<>>
              /\ result # <<"None">> => result = Move_str(best_move)

\* The move the innermost call's state was reached by: the parent's loop has
\* stepped past it.
EnteredBy(st) == st[Len(st) - 1].moves[st[Len(st) - 1].mi - 1]

\* back carries the card of the board_to_board move mv from mv.to to mv.from.
Reverses(back, mv) ==
    /\ mv.move_type = "board_to_board"
    /\ back.move_type = "board_to_board"
    /\ back.from = mv.to
    /\ back.to = mv.from
    /\ Id(back.card) = Id(mv.card)

\* The depth-first search recurses: a call is pushed.
Recurses == engine = "tree" /\ pc = "dfs" /\ Len(stack') = Len(stack) + 1

\* C22: when the depth-first search has applied a move of a card from one
\* column to another and recursed into the resulting state, it does not at
\* the next ply recurse into the state reached by carrying that card back.
C22_ReversalNotExploredNextPly ==
    [][Recurses /\ Len(stack) >= 2 =>
          ~Reverses(Last(stack).moves[Last(stack).mi], EnteredBy(stack))]_vars

(* The same engine run twice on two independent copies of one state *)

\* The first run has returned; its recommendation is kept and the engine is
\* called again, with the same max_depth, on a second copy of the input.
Again ==
    /\ pc = "done"
    /\ call.fn = "none"
    /\ call' = [fn |-> engine, args |-> <<pre, max_depth>>, ret |-> <<result, best_move>>]
    /\ heap' = <<heap[game], pre>>
    /\ game' = 2
    /\ pc' = "start"
    /\ UNCHANGED <<pre, last, engine, foundVars, recycleVars, probe, max_depth, visited, queue,
                   current, legal, mi, stack, best_move, best_score, result>>

NextTwice == NextSearch \/ Again

SpecTwice == InitSearch /\ [][NextTwice]_vars

Ids(pile) == [k \in 1..Len(pile.cards) |-> Id(pile.cards[k])]

\* Two states hold the same (rank, suit) sequences in stock, waste and every
\* foundation.
SameOffBoard(s1, s2) ==
    /\ Ids(s1.stock) = Ids(s2.stock)
    /\ Ids(s1.waste) = Ids(s2.waste)
    /\ \A su \in SuitSet : Ids(s1.foundations[su]) = Ids(s2.foundations[su])

\* C24: the breadth engine's keys of two states are equal iff the states hold
\* the same (rank, suit) sequences in stock, waste and foundations and the
\* columns of the second, as sequences of (rank, suit, revealed), are the
\* columns of the first in some order.
C24_GraphKeyUpToColumnOrder ==
    call.fn = "serialize_state" =>
        LET s1 == call.args[1]
            s2 == call.args[2]
        IN (call.ret[1] = call.ret[2]) <=>
              /\ SameOffBoard(s1, s2)
              /\ \E p \in Perms : \A i \in Columns : s2.Board[i].cards = s1.Board[p[i]].cards

\* Two states with the same columns in different seats, and different flags
\* on their stock cards, were given one key.
C24_Witness ==
    /\ call.fn = "serialize_state"
    /\ call.ret[1] = call.ret[2]
    /\ call.args[1].Board # call.args[2].Board
    /\ call.args[1].Board[0].cards # <<>>
    /\ call.args[1].stock # call.args[2].stock

\* C25: the depth engine's keys of two states are equal iff, column index by
\* column index, the columns hold the same sequence of (rank, suit,
\* revealed) and stock, waste and foundations hold the same (rank, suit)
\* sequences; states that differ by an exchange of two unequal columns have
\* different keys, while the breadth engine gives them one key.
C25_TreeKeyPositional ==
    call.fn = "serialize_state" =>
        LET s1 == call.args[1]
            s2 == call.args[2]
        IN /\ (call.ret[3] = call.ret[4]) <=>
                 /\ SameOffBoard(s1, s2)
                 /\ \A i \in Columns : s2.Board[i].cards = s1.Board[i].cards
           /\ \A i, j \in Columns :
                 /\ s1.Board[i].cards # s1.Board[j].cards
                 /\ s2 = [s1 EXCEPT !.Board[i] = s1.Board[j], !.Board[j] = s1.Board[i]]
                 => call.ret[3] # call.ret[4] /\ call.ret[1] = call.ret[2]

\* Two states that differ by an exchange of two unequal columns were keyed.
C25_Witness ==
    /\ call.fn = "serialize_state"
    /\ call.ret[3] # call.ret[4]
    /\ \E i, j \in Columns :
          /\ call.args[1].Board[i].cards # call.args[1].Board[j].cards
          /\ call.args[1].Board[i].cards # <<>>
          /\ call.args[1].Board[j].cards # <<>>
          /\ call.args[2] = [call.args[1] EXCEPT !.Board[i] = call.args[1].Board[j],
                                                 !.Board[j] = call.args[1].Board[i]]

\* The cards of a state's foundations, the face-up cards of its columns and
\* its empty columns, each as a set of places.
FoundationPlaces(g) ==
    UNION {{<<su, k>> : k \in 1..Len(g.foundations[su].cards)} : su \in SuitSet}

FaceUpPlaces(g) ==
    UNION {{<<i, k>> : k \in {x \in 1..Len(g.Board[i].cards) : g.Board[i].cards[x].revealed}} :
              i \in Columns}

EmptyPlaces(g) == {i \in Columns : g.Board[i].cards = <<>>}

Weighted(g, wf, wr, we) ==
    wf * Cardinality(FoundationPlaces(g)) + wr * Cardinality(FaceUpPlaces(g))
        + we * Cardinality(EmptyPlaces(g))

\* C26: score_state is 10 per foundation card, plus 3 (breadth engine) or 2
\* (depth engine) per face-up column card, plus 5 (breadth) or 3 (depth) per
\* empty column; it is the score of the same state without its stock and
\* waste.
C26_ScoreWeights ==
    call.fn = "score_state" =>
        LET g == call.args[1]
            bare == [g EXCEPT !.stock.cards = <<>>, !.waste.cards = <<>>]
        IN /\ call.ret[1] = Weighted(g, 10, 3, 5)
           /\ call.ret[2] = Weighted(g, 10, 2, 3)
           /\ score_state_graph(bare) = call.ret[1]
           /\ score_state_tree(bare) = call.ret[2]

\* A state with foundation cards, face-up and face-down column cards, an
\* empty column and cards in stock or waste was scored.
C26_Witness ==
    /\ call.fn = "score_state"
    /\ FoundationPlaces(call.args[1]) # {}
    /\ FaceUpPlaces(call.args[1]) # {}
    /\ EmptyPlaces(call.args[1]) # {}
    /\ \E i \in Columns : \E k \in 1..Len(call.args[1].Board[i].cards) :
          ~call.args[1].Board[i].cards[k].revealed
    /\ call.args[1].stock.cards \o call.args[1].waste.cards # <<>>
    /\ call.ret[1] > call.ret[2]

FrameKey(h, f) == serialize_state_tree(h[f.game])

\* C27: the depth-first search ends with every call returned; the k-th call
\* on the stack is at depth k - 1 <= max_depth and has generated no moves at
\* depth max_depth; the states of the calls on the stack have distinct keys,
\* all marked, the root's from the start; a call is entered only on a key
\* that was unmarked, which the same step marks; and no key is ever unmarked.
C27_DepthFirstTerminatesNoRepeat ==
    /\ (engine = "tree") ~> (pc = "done" /\ stack = <<>>)
    /\ [](engine = "tree" /\ pc = "dfs" =>
            /\ serialize_state_tree(pre) \in visited
            /\ \A k \in 1..Len(stack) :
                  /\ stack[k].depth = k - 1
                  /\ stack[k].depth <= max_depth
                  /\ stack[k].depth >= max_depth => stack[k].moves = <<>>
                  /\ FrameKey(heap, stack[k]) \in visited
                  /\ \A j \in 1..Len(stack) :
                        FrameKey(heap, stack[j]) = FrameKey(heap, stack[k]) => j = k)
    /\ [][engine = "tree" /\ pc = "dfs" =>
            /\ visited \subseteq visited'
            /\ Recurses =>
                  /\ FrameKey(heap', Last(stack')) \notin visited
                  /\ FrameKey(heap', Last(stack')) \in visited'
                  /\ Last(stack).depth < max_depth]_vars

\* A search to depth two or more has ended after skipping a state whose key
\* was marked and after entering calls at depth max_depth.
C27_Witness ==
    /\ engine = "tree"
    /\ pc = "done"
    /\ stack = <<>>
    /\ max_depth >= 2
    /\ Cardinality(visited) > max_depth + 1
    /\ \E mv \in Range(get_legal_moves_tree(pre)) :
          \E s \in TreeSuccessors(tree_mutate(pre, mv).g) :
              serialize_state_tree(s) = serialize_state_tree(pre)

\* The columns outside `named` and the foundations outside `suits` are as
\* they were before the move.
OthersKept(named, suits) ==
    /\ \A i \in Columns \ named : Cur.Board[i] = pre.Board[i]
    /\ \A su \in SuitSet \ suits : Cur.foundations[su] = pre.foundations[su]

\* C28: a move changes only the piles it names.  draw_stock and reset_stock
\* leave every column and foundation alone, and draw_stock takes exactly the
\* stock top to the top of the waste; the waste-sourced moves leave the stock
\* alone and the column-sourced moves leave stock and waste alone; columns
\* other than the source and destination and foundations other than the
\* moved card's suit are unchanged.
C28_MovesTouchOnlyNamedPiles ==
    LET t == last.move_type
    IN /\ t = "draw_stock" =>
             /\ OthersKept({}, {})
             /\ pre.stock.cards # <<>>
             /\ Cur.stock.cards = Front(pre.stock.cards)
             /\ Cur.waste.cards =
                    Append(pre.waste.cards, [Last(pre.stock.cards) EXCEPT !.revealed = TRUE])
       /\ t = "reset_stock" => OthersKept({}, {})
       /\ t = "waste_to_foundation" =>
             /\ Cur.stock = pre.stock
             /\ OthersKept({}, {last.card.suit})
       /\ t = "waste_to_board" =>
             /\ Cur.stock = pre.stock
             /\ OthersKept({last.column}, {})
       /\ t = "board_to_foundation" =>
             /\ Cur.stock = pre.stock
             /\ Cur.waste = pre.waste
             /\ OthersKept({last.from}, {last.card.suit})
       /\ t = "board_to_board" =>
             /\ Cur.stock = pre.stock
             /\ Cur.waste = pre.waste
             /\ OthersKept({last.from, last.to}, {})

\* A card was drawn onto a non-empty waste from a stock of several cards
\* while a foundation held cards and a column had cards face-down.
C28_Witness ==
    /\ last.move_type = "draw_stock"
    /\ Len(pre.stock.cards) >= 2
    /\ pre.waste.cards # <<>>
    /\ Id(Last(Cur.waste.cards)) = Id(Last(pre.stock.cards))
    /\ \E su \in SuitSet : Cur.foundations[su].cards # <<>>
    /\ \E i \in Columns : Cur.Board[i].cards # <<>> /\ ~Head(Cur.Board[i].cards).revealed

\* C29: add returns a flag and never raises on a card.  BoardPile.add
\* returns can_add(card); when that is false the pile and the card are as
\* before, when it is true the card, turned face-up, is the new top and the
\* rest of the pile is as before.  FoundationPile.add does the same and
\* leaves the card's flag as it was.
C29_AddReportsByValue ==
    /\ call.fn = "BoardPile.add" =>
          LET pile == call.args[1]
              card == call.args[2]
          IN /\ call.ret[2] = BoardPile_can_add(pile, card)
             /\ ~call.ret[2] => call.ret[1] = pile /\ call.ret[3] = card
             /\ call.ret[2] =>
                   /\ call.ret[1].cards = Append(pile.cards, [card EXCEPT !.revealed = TRUE])
                   /\ call.ret[3] = [card EXCEPT !.revealed = TRUE]
    /\ call.fn = "FoundationPile.add" =>
          LET pile == call.args[1]
              card == call.args[2]
          IN /\ call.ret[2] = FoundationPile_can_add(pile, card)
             /\ ~call.ret[2] => call.ret[1] = pile /\ call.ret[3] = card
             /\ call.ret[2] =>
                   /\ call.ret[1] = [pile EXCEPT !.cards = Append(pile.cards, card)]
                   /\ call.ret[3] = card

\* A face-down card was added to a foundation that already held a card.
C29_Witness ==
    /\ call.fn = "FoundationPile.add"
    /\ call.ret[2]
    /\ ~call.args[2].revealed
    /\ call.args[1].cards # <<>>
    /\ Len(call.ret[1].cards) = Len(call.args[1].cards) + 1

\* Cards k..top of column i (k counted from 0) are all face-up and descend by
\* one with alternating colours, column j is another column, and column j
\* accepts card k.
RunMovable(g, i, k, j) ==
    LET cards == g.Board[i].cards
        n == Len(cards)
    IN /\ \A m \in (k + 1)..n : cards[m].revealed
       /\ \A m \in (k + 1)..(n - 1) :
             /\ cards[m].rank = cards[m + 1].rank + 1
             /\ is_red(cards[m]) # is_red(cards[m + 1])
       /\ i # j
       /\ BoardPile_can_add(g.Board[j], cards[k + 1])

\* Every card of every column taken as the start of a run, face-up or not.
Starts(g) == UNION {{<<i, k>> : k \in 0..(Len(g.Board[i].cards) - 1)} : i \in Columns}

\* The last operation was attempt_move with a card of column last.from
\* selected, and it returned True.
RunAttempted == engine = "main.attempt_move" /\ last.from # NoCol

\* C30: attempt_move relocates the run starting at index k of a column onto
\* a column exactly when cards k..top are face-up and a descending
\* alternating sequence, the destination is another column and accepts card
\* k; then the whole run lies on the destination in the same order and the
\* source is empty or has a face-up top.  A column card goes to a foundation
\* only when it is the top card.  When attempt_move returns False the game
\* is as it was.
C30_AttemptMove ==
    /\ \A ik \in Starts(Cur) : \A j \in Columns :
          attempt_move(Cur, Selection("Board", ik[1], ik[2]), Target("Board", j)).ret
              <=> RunMovable(Cur, ik[1], ik[2], j)
    /\ \A ik \in Starts(Cur) : \A f \in 0..(Len(suit_order) - 1) :
          attempt_move(Cur, Selection("Board", ik[1], ik[2]), Target("foundation", f)).ret
              => ik[2] = Len(Cur.Board[ik[1]].cards) - 1
    /\ RunAttempted /\ last.move_type = "Board" =>
          LET src == pre.Board[last.from].cards
              run == SubSeq(src, last.column + 1, Len(src))
              left == Cur.Board[last.from].cards
          IN /\ RunMovable(pre, last.from, last.column, last.to)
             /\ Cur.Board[last.to].cards = pre.Board[last.to].cards \o run
             /\ Len(left) = last.column
             /\ \A m \in 1..(Len(left) - 1) : left[m] = src[m]
             /\ left # <<>> =>
                   /\ Last(left).revealed
                   /\ Last(left) = [src[Len(left)] EXCEPT !.revealed = TRUE]
    /\ RunAttempted /\ last.move_type = "foundation" =>
          /\ last.column = Len(pre.Board[last.from].cards) - 1
          /\ Len(Cur.Board[last.from].cards) = last.column
          /\ Last(Cur.foundations[suit_order[last.to + 1]].cards) = last.card
    /\ engine = "main.attempt_move False" => Cur = pre
    /\ \A selected \in Selections(Cur) : \A target \in Targets :
          LET r == attempt_move(Cur, selected, target)
          IN ~r.ret => r.g = Cur

\* A run of two cards has just moved to another column, uncovering a card
\* that lay face-down.
C30_Witness ==
    /\ RunAttempted
    /\ last.move_type = "Board"
    /\ Len(pre.Board[last.from].cards) - last.column >= 2
    /\ last.column >= 1
    /\ ~pre.Board[last.from].cards[last.column].revealed
    /\ Len(Cur.Board[last.to].cards) = Len(pre.Board[last.to].cards) + 2

---------------------------------------------------------------------------
(* The oscillation guard of the depth engine *)

\* Every non-empty column has a face-up top card.
TopsFaceUp(g) ==
    \A i \in Columns : g.Board[i].cards = <<>> \/ Last(g.Board[i].cards).revealed

\* The board_to_board moves of get_legal_moves for which the guard reaches
\* its colour tests: the source holds two cards or more and the destination
\* is not empty.
GuardCompares(g) ==
    {mv \in Range(get_legal_moves_tree(g)) :
        /\ mv.move_type = "board_to_board"
        /\ Len(g.Board[mv.from].cards) >= 2
        /\ g.Board[mv.to].cards # <<>>}

\* C31: in every state reached by generator-emitted moves, every non-empty
\* column has a face-up top, every board_to_board move that get_legal_moves
\* emits onto a non-empty column puts a card on a top of the opposite
\* colour, and illegal_color_repetition_move is False for every move that
\* get_legal_moves emits, in the order of the generator and in the order
\* the depth search tries them.
C31_GuardNeverPrunes ==
    /\ TopsFaceUp(Cur)
    /\ \A mv \in Range(get_legal_moves_tree(Cur)) :
          /\ ~illegal_color_repetition_move(Cur, mv)
          /\ mv.move_type = "board_to_board" /\ Cur.Board[mv.to].cards # <<>> =>
                is_red(BoardPile_peek(Cur.Board[mv.from]))
                    # is_red(BoardPile_peek(Cur.Board[mv.to]))
    /\ \A mv \in Range(dfs_moves(Cur)) : ~illegal_color_repetition_move(Cur, mv)

\* The generator emits a move of a card that lies on a card of its own
\* colour onto a non-empty column: the guard is decided by the colour of the
\* destination's top.
C31_Witness ==
    \E mv \in GuardCompares(Cur) :
        LET src == Cur.Board[mv.from].cards
        IN is_red(src[Len(src)]) = is_red(src[Len(src) - 1])

---------------------------------------------------------------------------
(* The move returned is a move of the root *)

\* The moves get_legal_moves emits for the root the running engine was
\* called on.
RootMoves == Range(legal_moves(engine, pre))

\* A first_move carried at depth d: none at the root, a root move below it.
Carried(first_move, d) ==
    IF d = 0 THEN first_move = NoMove ELSE first_move \in RootMoves

\* C32: while either engine runs, the root entry or frame carries no
\* first_move and every deeper one carries a move that get_legal_moves
\* emits for the root; an entry or frame made from a parent below the root
\* carries its parent's first_move and one made from the root carries the
\* move just applied; best_move is no move or a move emitted for the root,
\* and the string returned is the string of best_move.
C32_ReturnedMoveIsRootMove ==
    /\ [](pc # "start" =>
            /\ \A k \in 1..Len(queue) : Carried(queue[k].first_move, queue[k].depth)
            /\ \A k \in 1..Len(stack) : Carried(stack[k].first_move, stack[k].depth)
            /\ engine = "graph" /\ pc = "for" => Carried(current.first_move, current.depth)
            /\ best_move # NoMove => best_move \in RootMoves
            /\ pc = "done" /\ best_move # NoMove =>
                  /\ result = Move_str(best_move)
                  /\ \E mv \in RootMoves : result = Move_str(mv))
    /\ [][/\ Len(queue') = Len(queue) + 1 /\ pc = "for" =>
              Last(queue').first_move =
                  IF current.depth = 0 THEN legal[mi] ELSE current.first_move
          /\ Len(stack') = Len(stack) + 1 /\ pc = "dfs" =>
              Last(stack').first_move =
                  IF Last(stack).depth = 0 THEN Last(stack).moves[Last(stack).mi]
                  ELSE Last(stack).first_move
          /\ best_move' # best_move /\ pc = "dfs" /\ Len(stack') = Len(stack) + 1 =>
              best_move' = Last(stack').first_move]_vars

\* The depth engine has just taken, two plies or more below the root, a move
\* that is not a move of the root, found the best score so far there, and
\* holds as best the root move that began the path.
C32_Witness ==
    /\ engine = "tree"
    /\ pc = "dfs"
    /\ Len(stack) >= 3
    /\ Last(stack).mi = 1
    /\ last \notin RootMoves
    /\ best_score = score_state_tree(heap[Last(stack).game])
    /\ best_move = Last(stack).first_move
    /\ best_move \in RootMoves

---------------------------------------------------------------------------
(* Scores before and after a move *)

FoundationTypes == {"waste_to_foundation", "board_to_foundation"}

\* C33: after a generator-emitted waste_to_foundation or
\* board_to_foundation move both engines' scores are strictly greater than
\* before the move (by 10 from the waste; from a column by 10 when a
\* face-down card is turned, by 10 less the face-up weight when the card
\* beneath was face-up, by 10 less the face-up weight plus the empty-column
\* weight when the column empties), and after draw_stock or reset_stock
\* both scores are what they were.
C33_ScoreUnderMoves ==
    /\ last.move_type \in FoundationTypes =>
          /\ score_state_graph(Cur) > score_state_graph(pre)
          /\ score_state_tree(Cur) > score_state_tree(pre)
    /\ last.move_type = "waste_to_foundation" =>
          /\ score_state_graph(Cur) = score_state_graph(pre) + 10
          /\ score_state_tree(Cur) = score_state_tree(pre) + 10
    /\ last.move_type = "board_to_foundation" =>
          LET src == pre.Board[last.from].cards
              case == IF Len(src) = 1 THEN "empties"
                      ELSE IF src[Len(src) - 1].revealed THEN "faceup" ELSE "turns"
          IN /\ score_state_graph(Cur) - score_state_graph(pre) =
                    (CASE case = "empties" -> 10 - 3 + 5
                       [] case = "faceup" -> 10 - 3
                       [] OTHER -> 10)
             /\ score_state_tree(Cur) - score_state_tree(pre) =
                    (CASE case = "empties" -> 10 - 2 + 3
                       [] case = "faceup" -> 10 - 2
                       [] OTHER -> 10)
    /\ last.move_type \in StockTypes =>
          /\ score_state_graph(Cur) = score_state_graph(pre)
          /\ score_state_tree(Cur) = score_state_tree(pre)

\* A column's top card has just gone to its foundation from above a face-up
\* card: the move that gains least.
C33_Witness ==
    /\ last.move_type = "board_to_foundation"
    /\ Len(pre.Board[last.from].cards) >= 2
    /\ pre.Board[last.from].cards[Len(pre.Board[last.from].cards) - 1].revealed
    /\ score_state_tree(Cur) = score_state_tree(pre) + 8

---------------------------------------------------------------------------
(* The won state *)

\* C34: over one deck, the state with every card on the foundations has no
\* legal move in either generator, and both engines score every other
\* well-formed state strictly below it.
C34_WonOutranksAll ==
    call.fn = "score_state, get_legal_moves" =>
        LET g == call.args[1]
        IN /\ IsWon(g) =>
                 /\ call.ret[3] = <<>>
                 /\ call.ret[4] = <<>>
                 /\ call.ret[1] = 10 * Cardinality(LayoutIds) + 5 * BOARD_COLUMNS
                 /\ call.ret[2] = 10 * Cardinality(LayoutIds) + 3 * BOARD_COLUMNS
           /\ ~IsWon(g) =>
                 /\ call.ret[1] < score_state_graph(WonLayout)
                 /\ call.ret[2] < score_state_tree(WonLayout)

\* A state one move from won is scored: every card but one on the
\* foundations, the last one on the waste, every column empty.
C34_Witness ==
    /\ call.fn = "score_state, get_legal_moves"
    /\ ~IsWon(call.args[1])
    /\ Len(call.args[1].waste.cards) = 1
    /\ call.ret[1] = score_state_graph(WonLayout) - 10
    /\ call.ret[2] = score_state_tree(WonLayout) - 10
    /\ call.ret[3] # <<>>

====
